---- MODULE Spec2Model ----
(***************************************************************************)
(* A state-machine model of the EV power-station platform's request        *)
(* handlers: the station router (station-service), the payment router      *)
(* (payment-service) and the tRPC middleware they are built on.            *)
(*                                                                         *)
(* Each handler is one action per await point that matters for the         *)
(* interleaving of concurrent requests; a handler whose body is a single   *)
(* storage statement is one action.  The storage rows, the payment         *)
(* provider's records and the requests in flight are the state.            *)
(***************************************************************************)
EXTENDS Integers, Sequences, FiniteSets, TLC

\* ------------------------------------------------------------------ bounds
MaxStations == 2
MaxPorts == 1
MaxCalls == 2
MaxSessions == 1
MaxPayments == 2
MaxAmount == 2
MaxLogins == 2
MaxSubscriptions == 1

StationIds == 1..MaxStations
PortIds == 1..MaxPorts
Calls == 1..MaxCalls
SessionIds == 1..MaxSessions
BookingIds == 1..MaxSessions
PaymentIds == 1..MaxPayments
Amounts == 1..MaxAmount

\* ------------------------------------------------------------- static data
Tenants == {"t1", "t2"}
Users == {"u1", "u2", "u3"}
Emails == {"e1", "e2", "e3"}
StationNames == {"n1", "n2"}
Passwords == {"pw1", "pw2"}

\* bcrypt.hash and bcrypt.compare: a hash is not the password, and a password
\* verifies against its own hash only.
bcryptHash(password) == [bcrypt |-> password]
bcryptCompare(password, hash) == hash = bcryptHash(password)
\* A user row or a request slot without a password hash.
NoHash == [bcrypt |-> "none"]

\* The user rows of a running platform: one active administrator per tenant,
\* and a deactivated user of the first tenant; each has the first password.
UserTable ==
  [u \in Users |->
     [row |-> "live",
      email |-> IF u = "u1" THEN "e1" ELSE IF u = "u2" THEN "e2" ELSE "e3",
      tenantId |-> IF u = "u2" THEN "t2" ELSE "t1",
      role |-> IF u = "u3" THEN "CUSTOMER" ELSE "TENANT_ADMIN",
      isActive |-> u # "u3", lastLoginAt |-> 0,
      password |-> bcryptHash("pw1")]]
TenantTable ==
  [t \in Tenants |-> [row |-> "live", isActive |-> TRUE,
                      domain |-> IF t = "t1" THEN "d1" ELSE "d2"]]

PortStatuses == {"AVAILABLE", "OCCUPIED", "RESERVED", "OUT_OF_ORDER", "MAINTENANCE"}

VARIABLES
  stations,   \* station rows, by id
  ports,      \* chargingPort rows, by id
  sessions,   \* chargingSession rows, by id
  lastEvent,  \* per port, the status carried by the last port:<id>:status event
  bookings,   \* booking rows, by id
  payments,   \* payment rows, by id
  intents,    \* the payment provider's payment intents, by id
  tenants,    \* tenant rows, by id
  users,      \* user rows, by id
  redis,      \* the session store: per user id, the token under session:<id>
  monitor,    \* the admin dashboard's list of active sessions
  subscriptions,        \* subscription rows, by id
  stripeSubscriptions,  \* the number of subscriptions the payment provider has created
  inflight,   \* per request slot, the request suspended at an await
  resp        \* the response the latest step returned to its caller, if it returned one

vars == <<stations, ports, sessions, lastEvent, bookings, payments, intents, tenants, users,
          redis, monitor, subscriptions, stripeSubscriptions, inflight, resp>>

\* The rows only the payment router writes, and those only the station router writes.
payRows == <<bookings, payments, intents>>
stationRows == <<stations, ports, lastEvent>>
\* The rows and session keys only the auth router writes.
authRows == <<tenants, users, redis>>
\* The state of the admin dashboard.
dashboard == <<monitor>>
\* The subscription rows and the provider's subscriptions.
subRows == <<subscriptions, stripeSubscriptions>>

\* ------------------------------------------------------------------- rows
NoStation == [row |-> "absent", tenantId |-> "none", name |-> "none"]
NoSubscription == [row |-> "absent", plan |-> "none", status |-> "none",
                   stripeSubscriptionId |-> 0, tenantId |-> "none"]
GoneStation == [row |-> "deleted", tenantId |-> "none", name |-> "none"]
NoPort == [row |-> "absent", stationId |-> 0, status |-> "none"]
NoSession == [row |-> "absent", portId |-> 0, userId |-> "none", status |-> "none", cost |-> 0]
NoBooking == [row |-> "absent", userId |-> "none", totalCost |-> 0]
NoPayment == [row |-> "absent", amount |-> 0, status |-> "none", stripePaymentId |-> 0,
              userId |-> "none", sessionId |-> 0, bookingId |-> 0, metadata |-> {},
              refundAmount |-> 0]
NoTenant == [row |-> "absent", isActive |-> FALSE, domain |-> "none"]
NoAccount == [row |-> "absent", email |-> "none", tenantId |-> "none", role |-> "none",
              isActive |-> FALSE, lastLoginAt |-> 0, password |-> NoHash]
NoIntent == [row |-> "absent", status |-> "none", amount |-> 0, refunded |-> 0, refunds |-> 0]

\* The payment, session and booking rows of an empty storage.
NoRecords == [payments |-> [p \in PaymentIds |-> NoPayment],
              sessions |-> [x \in SessionIds |-> NoSession],
              bookings |-> [b \in BookingIds |-> NoBooking]]

\* A request slot: the handler, the await it is suspended at, and its locals;
\* before keeps the rows as a payment call found them when it came in, plain
\* and tenantDomain the credentials a login came with, token the token it
\* signed, plan and subscription the price a createSubscription call came
\* with and the provider's subscription; found, pending and views are the
\* stations a findNearby query
\* returned, those whose ports are not read yet, and the ports read.
Idle == [op |-> "idle", pc |-> "idle", user |-> "none", tenantId |-> "none",
         portId |-> 0, status |-> "none", intent |-> 0, paymentId |-> 0, amount |-> 0,
         sessionId |-> 0, bookingId |-> 0, stationId |-> 0, metadata |-> {},
         before |-> NoRecords,
         email |-> "none", password |-> NoHash, plain |-> "none", tenantDomain |-> "none",
         token |-> [kind |-> "none", userId |-> "none", tenantId |-> "none", role |-> "none"],
         plan |-> "none", subscription |-> 0,
         found |-> <<>>, pending |-> {}, views |-> {},
         latitude |-> 0, radius |-> 0, connectorType |-> "none", availableOnly |-> FALSE]

StationView(id) == [id |-> id, tenantId |-> stations[id].tenantId, name |-> stations[id].name]
PortView(id) == [id |-> id, stationId |-> ports[id].stationId, status |-> ports[id].status]

LiveStations == {s \in StationIds : stations[s].row = "live"}
LivePorts == {p \in PortIds : ports[p].row = "live"}
PortsOf(s) == {p \in LivePorts : ports[p].stationId = s}

\* ----------------------------------------------------------------- tokens
\* A bearer token: none, one whose signature does not verify, or a signed payload.
NoToken == [kind |-> "none", userId |-> "none", tenantId |-> "none", role |-> "none"]
ForgedToken == [kind |-> "forged", userId |-> "u1", tenantId |-> "t1", role |-> "TENANT_ADMIN"]
signJWT(payload) ==
  [kind |-> "signed", userId |-> payload.userId, tenantId |-> payload.tenantId,
   role |-> payload.role]
\* The payload of the token a user of the running platform was issued; u0 is
\* the id of a user whose row is gone.
Claims(userId) ==
  [userId |-> userId,
   tenantId |-> IF userId \in Users THEN UserTable[userId].tenantId ELSE "t1",
   role |-> IF userId \in Users THEN UserTable[userId].role ELSE "CUSTOMER"]
RequestTokens == {NoToken, ForgedToken, signJWT(Claims("u1")), signJWT(Claims("u2"))}
\* The tokens of the two tenants' administrators.
AdminTokens == {signJWT(Claims("u1")), signJWT(Claims("u2"))}

\* A session store with no session key.
NoSessions == [u \in Users |-> NoToken]

\* verifyJWT: the payload of a token whose signature verifies, else a throw.
verifyJWT(tok) ==
  IF tok.kind = "signed"
  THEN [ok |-> TRUE, userId |-> tok.userId, tenantId |-> tok.tenantId, role |-> tok.role]
  ELSE [ok |-> FALSE, userId |-> "none", tenantId |-> "none", role |-> "none"]

NoUser == [id |-> "none", tenantId |-> "none", role |-> "none"]

\* The ctx.user a stored user row gives.
ContextUser(userId) ==
  [id |-> userId, tenantId |-> users[userId].tenantId, role |-> users[userId].role]

\* A middleware that does not look at the user row's isActive.
ActiveUnchecked(tok) ==
  IF tok.kind = "none" THEN [ok |-> FALSE, user |-> NoUser, thrown |-> "NO_TOKEN"]
  ELSE LET decoded == verifyJWT(tok) IN
    IF ~decoded.ok THEN [ok |-> FALSE, user |-> NoUser, thrown |-> "JWT"]
    ELSE IF decoded.userId \notin Users \/ users[decoded.userId].row # "live"
      THEN [ok |-> FALSE, user |-> NoUser, thrown |-> "INVALID_USER"]
      ELSE [ok |-> TRUE, user |-> ContextUser(decoded.userId), thrown |-> "none"]

\* authMiddleware: ctx.user from the stored user row, or UNAUTHORIZED; thrown
\* is what was raised (no token, the signature check's error, an absent or
\* inactive user) before the middleware's catch made it UNAUTHORIZED.
authMiddleware(tok) ==
  IF tok.kind = "none" THEN [ok |-> FALSE, user |-> NoUser, thrown |-> "NO_TOKEN"]
  ELSE LET decoded == verifyJWT(tok) IN
    IF ~decoded.ok THEN [ok |-> FALSE, user |-> NoUser, thrown |-> "JWT"]
    ELSE IF \/ decoded.userId \notin Users
            \/ users[decoded.userId].row # "live"
            \/ ~users[decoded.userId].isActive
      THEN [ok |-> FALSE, user |-> NoUser, thrown |-> "INVALID_USER"]
      ELSE [ok |-> TRUE, user |-> ContextUser(decoded.userId), thrown |-> "none"]

\* A tenant filter that is set only where the caller's clause has none.
DefaultedTenant(where, user) ==
  IF where.tenantId = "any" THEN [where EXCEPT !.tenantId = user.tenantId] ELSE where

\* tenantMiddleware: the where clause a proxied read runs with.
tenantMiddleware(where, user) == [where EXCEPT !.tenantId = user.tenantId]

\* -------------------------------------------------------------- responses
NoStats == [totalPorts |-> 0, availablePorts |-> 0, occupiedPorts |-> 0,
            outOfOrderPorts |-> 0, activeSessions |-> 0]


\* A request's outcome: who asked for what (op, user, target id), the tRPC code
\* the caller gets, and the body (station rows, port rows, statistics, payment
\* summaries).  thrown is the error the handler raised before the request
\* boundary or the handler's own catch turned it into code.
Reply(op, user, code, thrown, target, st, pt, stats, pay) ==
  [op |-> op, user |-> user.id, tenantId |-> user.tenantId, target |-> target,
   code |-> code, thrown |-> thrown,
   stations |-> st, ports |-> pt, stats |-> stats, payments |-> pay]

Response(op, user, code, target, st, pt, stats) == Reply(op, user, code, code, target, st, pt, stats, {})

Failure(op, user, code, target) == Response(op, user, code, target, {}, {}, NoStats)
NoResponse == Failure("none", NoUser, "none", 0)

\* The answer to a request authMiddleware turned away.
Denied(op, auth, target) ==
  Reply(op, NoUser, "UNAUTHORIZED", auth.thrown, target, {}, {}, NoStats, {})

\* A where clause on stations; "any" leaves a field unconstrained.
StationWhere(id, tenantId) == [id |-> id, tenantId |-> tenantId]
MatchStation(s, where) ==
  /\ stations[s].row = "live"
  /\ where.id \in {0, s}
  /\ where.tenantId \in {"any", stations[s].tenantId}
FindStations(where) == {s \in StationIds : MatchStation(s, where)}

\* ---------------------------------------------------------- station router
\* What a schema keeps of a request body: the keys it declares.
Strip(body, keys) == [k \in (DOMAIN body) \cap keys |-> body[k]]
createStationSchema(body) == Strip(body, {"name"})
\* A schema that lets every key of the body through.
Passthrough(body) == body
updateStationSchema(body) == Strip(body, {"id", "name"})
\* The value the data of a write gives a column, or else the stored one.
Column(data, key, stored) == IF key \in DOMAIN data THEN data[key] ELSE stored

\* station.create (tenantProcedure): the parsed body with the caller's tenant.
\* The outcome keeps the body as it was sent.
create(tok, body) ==
  LET auth == authMiddleware(tok)
      input == createStationSchema(body)
  IN
  /\ UNCHANGED <<ports, sessions, lastEvent, inflight, payRows, authRows, dashboard, subRows>>
  /\ IF ~auth.ok
     THEN /\ resp' = Denied("create", auth, 0)
          /\ UNCHANGED stations
     ELSE /\ \E id \in StationIds :
               /\ stations[id].row = "absent"
               /\ \A j \in StationIds : j < id => stations[j].row # "absent"
               /\ stations' = [stations EXCEPT ![id] =
                     [row |-> "live", tenantId |-> auth.user.tenantId, name |-> input["name"]]]
               /\ resp' = [body |-> body] @@
                     Response("create", auth.user, "OK", id,
                       {[id |-> id, tenantId |-> auth.user.tenantId, name |-> input["name"]]},
                       {}, NoStats)

\* station.list (tenantProcedure)
list(tok) ==
  LET auth == authMiddleware(tok) IN
  /\ UNCHANGED <<stations, ports, sessions, lastEvent, inflight, payRows, authRows, dashboard, subRows>>
  /\ IF ~auth.ok
     THEN resp' = Denied("list", auth, 0)
     ELSE LET where == tenantMiddleware(StationWhere(0, auth.user.tenantId), auth.user) IN
          resp' = Response("list", auth.user, "OK", 0,
                    {StationView(s) : s \in FindStations(where)},
                    {PortView(p) : p \in UNION {PortsOf(s) : s \in FindStations(where)}},
                    NoStats)

\* station.getById (protectedProcedure)
getById(tok, id) ==
  LET auth == authMiddleware(tok) IN
  /\ UNCHANGED <<stations, ports, sessions, lastEvent, inflight, payRows, authRows, dashboard, subRows>>
  /\ IF ~auth.ok
     THEN resp' = Denied("getById", auth, id)
     ELSE LET found == FindStations(StationWhere(id, "any")) IN
          IF found = {}
          THEN resp' = Failure("getById", auth.user, "NOT_FOUND", id)
          ELSE resp' = Response("getById", auth.user, "OK", id,
                         {StationView(s) : s \in found},
                         {PortView(p) : p \in UNION {PortsOf(s) : s \in found}}, NoStats)

\* station.update (tenantProcedure): the parsed body without its id is the
\* data written on the row addressed by id and tenantId; a where clause that
\* matches no row makes the storage call throw, which the request boundary
\* reports as INTERNAL_SERVER_ERROR.  The outcome keeps the body as it was sent.
update(tok, body) ==
  LET auth == authMiddleware(tok)
      input == updateStationSchema(body)
      id == input["id"]
      data == [k \in (DOMAIN input) \ {"id"} |-> input[k]]
  IN
  /\ UNCHANGED <<ports, sessions, lastEvent, inflight, payRows, authRows, dashboard, subRows>>
  /\ IF ~auth.ok
     THEN /\ resp' = Denied("update", auth, id)
          /\ UNCHANGED stations
     ELSE IF FindStations(StationWhere(id, auth.user.tenantId)) = {}
     THEN /\ resp' = Failure("update", auth.user, "INTERNAL_SERVER_ERROR", id)
          /\ UNCHANGED stations
     ELSE LET written == [row |-> "live",
                          tenantId |-> Column(data, "tenantId", stations[id].tenantId),
                          name |-> Column(data, "name", stations[id].name)]
          IN /\ stations' = [stations EXCEPT ![id] = written]
             /\ resp' = [body |-> body] @@
                          Response("update", auth.user, "OK", id,
                            {[id |-> id, tenantId |-> written.tenantId, name |-> written.name]},
                            {PortView(p) : p \in PortsOf(id)}, NoStats)

\* station.delete (tenantProcedure).  A station that still has ports is kept:
\* the port rows reference it.
delete(tok, id) ==
  LET auth == authMiddleware(tok) IN
  /\ UNCHANGED <<ports, sessions, lastEvent, inflight, payRows, authRows, dashboard, subRows>>
  /\ IF ~auth.ok
     THEN /\ resp' = Denied("delete", auth, id)
          /\ UNCHANGED stations
     ELSE IF FindStations(StationWhere(id, auth.user.tenantId)) = {} \/ PortsOf(id) # {}
     THEN /\ resp' = Failure("delete", auth.user, "INTERNAL_SERVER_ERROR", id)
          /\ UNCHANGED stations
     ELSE /\ stations' = [stations EXCEPT ![id] = GoneStation]
          /\ resp' = Response("delete", auth.user, "OK", id, {}, {}, NoStats)

\* The port ids not yet given out, and the addPort requests that are between
\* their ownership check and their insert.
FreePorts == {p \in PortIds : ports[p].row = "absent"}
PendingPorts == {c \in Calls : inflight[c].op = "addPort"}

\* station.addPort (tenantProcedure), up to the await of the ownership check:
\* the caller's station with that id is looked up; without one the answer is
\* NOT_FOUND.  The request goes on only while a port id is left for it.
addPort(c, tok, stationId) ==
  LET auth == authMiddleware(tok) IN
  /\ inflight[c] = Idle
  /\ UNCHANGED <<stations, ports, sessions, lastEvent, payRows, authRows, dashboard, subRows>>
  /\ IF ~auth.ok
     THEN /\ resp' = Denied("addPort", auth, stationId)
          /\ UNCHANGED inflight
     ELSE LET where == tenantMiddleware(StationWhere(stationId, auth.user.tenantId), auth.user) IN
          IF FindStations(where) = {}
          THEN /\ resp' = Failure("addPort", auth.user, "NOT_FOUND", stationId)
               /\ UNCHANGED inflight
          ELSE /\ Cardinality(FreePorts) > Cardinality(PendingPorts)
               /\ inflight' = [inflight EXCEPT ![c] =
                     [Idle EXCEPT !.op = "addPort", !.pc = "create", !.user = auth.user.id,
                                  !.tenantId = auth.user.tenantId, !.stationId = stationId]]
               /\ resp' = NoResponse

\* station.addPort, the insert after the ownership check: the port row refers
\* to its station, so the insert is rejected when the station row has gone in
\* the meantime, which the request boundary reports as INTERNAL_SERVER_ERROR;
\* else the new AVAILABLE port goes back to the caller.
addPortCreate(c) ==
  LET user == [id |-> inflight[c].user, tenantId |-> inflight[c].tenantId]
      stationId == inflight[c].stationId IN
  /\ inflight[c].op = "addPort"
  /\ inflight[c].pc = "create"
  /\ inflight' = [inflight EXCEPT ![c] = Idle]
  /\ UNCHANGED <<stations, sessions, lastEvent, payRows, authRows, dashboard, subRows>>
  /\ IF stations[stationId].row # "live"
     THEN /\ resp' = Failure("addPort", user, "INTERNAL_SERVER_ERROR", stationId)
          /\ UNCHANGED ports
     ELSE \E p \in FreePorts :
            /\ \A j \in FreePorts : p <= j
            /\ ports' = [ports EXCEPT ![p] =
                  [row |-> "live", stationId |-> stationId, status |-> "AVAILABLE"]]
            /\ resp' = Response("addPort", user, "OK", stationId, {},
                  {[id |-> p, stationId |-> stationId, status |-> "AVAILABLE"]}, NoStats)

\* The row write of station.updatePortStatus: the port is addressed by id alone
\* and its status is overwritten with the requested one.
PortStatusWrite(portId, status) == [ports EXCEPT ![portId].status = status]

\* station.updatePortStatus (protectedProcedure), up to the await of the row write.
updatePortStatus(c, tok, portId, status) ==
  LET auth == authMiddleware(tok) IN
  /\ inflight[c] = Idle
  /\ UNCHANGED <<stations, sessions, lastEvent, payRows, authRows, dashboard, subRows>>
  /\ IF ~auth.ok
     THEN /\ resp' = Denied("updatePortStatus", auth, portId)
          /\ UNCHANGED <<ports, inflight>>
     ELSE IF ports[portId].row # "live"
     THEN /\ resp' = Failure("updatePortStatus", auth.user, "INTERNAL_SERVER_ERROR", portId)
          /\ UNCHANGED <<ports, inflight>>
     ELSE /\ ports' = PortStatusWrite(portId, status)
          /\ inflight' = [inflight EXCEPT ![c] =
                [Idle EXCEPT !.op = "updatePortStatus", !.pc = "emit", !.user = auth.user.id,
                             !.tenantId = auth.user.tenantId, !.portId = portId,
                             !.status = status]]
          /\ resp' = NoResponse

\* station.updatePortStatus, after the write: the port:<id>:status event, which
\* is published only when the request's context has a socket server (io), then
\* the updated row goes back to the caller.
updatePortStatusEmit(c, io) ==
  /\ inflight[c].op = "updatePortStatus"
  /\ inflight[c].pc = "emit"
  /\ lastEvent' = IF io THEN [lastEvent EXCEPT ![inflight[c].portId] = inflight[c].status]
                  ELSE lastEvent
  /\ resp' = Response("updatePortStatus",
                [id |-> inflight[c].user, tenantId |-> inflight[c].tenantId], "OK",
                inflight[c].portId, {},
                {[id |-> inflight[c].portId, stationId |-> ports[inflight[c].portId].stationId,
                  status |-> inflight[c].status]}, NoStats)
  /\ inflight' = [inflight EXCEPT ![c] = Idle]
  /\ UNCHANGED <<stations, ports, sessions, payRows, authRows, dashboard, subRows>>

ActiveSessionsOf(p) ==
  {x \in SessionIds : sessions[x].row = "live" /\ sessions[x].portId = p
                        /\ sessions[x].status = "ACTIVE"}

\* station.getRealtimeStats (tenantProcedure)
getRealtimeStats(tok, stationId) ==
  LET auth == authMiddleware(tok) IN
  /\ UNCHANGED <<stations, ports, sessions, lastEvent, inflight, payRows, authRows, dashboard, subRows>>
  /\ IF ~auth.ok
     THEN resp' = Denied("getRealtimeStats", auth, stationId)
     ELSE LET where == tenantMiddleware(StationWhere(stationId, auth.user.tenantId), auth.user)
              found == FindStations(where)
              ps == UNION {PortsOf(s) : s \in found}
          IN IF found = {}
             THEN resp' = Failure("getRealtimeStats", auth.user, "NOT_FOUND", stationId)
             ELSE resp' = Response("getRealtimeStats", auth.user, "OK", stationId,
                    {StationView(s) : s \in found}, {},
                    [totalPorts |-> Cardinality(ps),
                     availablePorts |-> Cardinality({p \in ps : ports[p].status = "AVAILABLE"}),
                     occupiedPorts |-> Cardinality({p \in ps : ports[p].status = "OCCUPIED"}),
                     outOfOrderPorts |-> Cardinality({p \in ps : ports[p].status = "OUT_OF_ORDER"}),
                     activeSessions |-> Cardinality(UNION {ActiveSessionsOf(p) : p \in ps})])

\* The storage methods tenantMiddleware's proxy wraps.
ProxiedReads == {"findMany", "findFirst", "findUnique", "count", "aggregate"}

\* A read of stations through the storage client a tenantProcedure handler
\* gets, with a where clause of the caller's making: the proxy's wrapper runs
\* the method with the clause tenantMiddleware leaves.  The outcome keeps the
\* clause given (args) and the clause run (where) next to the rows matched.
proxiedRead(tok, method, args) ==
  LET auth == authMiddleware(tok) IN
  /\ UNCHANGED <<stations, ports, sessions, lastEvent, inflight, payRows, authRows, dashboard, subRows>>
  /\ IF ~auth.ok
     THEN resp' = Denied(method, auth, args.id)
     ELSE LET where == IF method \in ProxiedReads
                       THEN tenantMiddleware(args, auth.user) ELSE args
          IN resp' = [args |-> args, where |-> where] @@
                     Response(method, auth.user, "OK", args.id,
                              {StationView(s) : s \in FindStations(where)}, {}, NoStats)

\* --------------------------------------------------------- payment router
\* The payment provider: an intent is created unpaid, the customer pays it at the
\* provider with the client secret, and the provider keeps, per intent, how much
\* of the charge it has refunded and in how many refunds.
ToCents(amount) == amount * 100
FromCents(cents) == cents \div 100

FreeIntent(i) ==
  /\ intents[i].row = "absent"
  /\ \A j \in PaymentIds : j < i => intents[j].row # "absent"
FreePayment(p) ==
  /\ payments[p].row = "absent"
  /\ \A j \in PaymentIds : j < p => payments[j].row # "absent"

\* The payment, session and booking rows as they stand.
Records == [payments |-> payments, sessions |-> sessions, bookings |-> bookings]

PaymentView(p) ==
  [paymentId |-> p, status |-> payments[p].status, amount |-> payments[p].amount,
   userId |-> payments[p].userId]

PayReply(op, user, code, thrown, target, pay) ==
  Reply(op, user, code, thrown, target, {}, {}, NoStats, pay)
SlotUser(c) == [id |-> inflight[c].user, tenantId |-> inflight[c].tenantId]
Release(c) == inflight' = [inflight EXCEPT ![c] = Idle]

\* A storage write that rejects (the database is unreachable, the statement
\* times out): the handler's catch reports it like everything else.
WriteFails(op, c, target) ==
  /\ resp' = PayReply(op, SlotUser(c), "INTERNAL_SERVER_ERROR", "STORAGE", target, {})
  /\ Release(c)

\* The customer completes the payment at the provider.
CustomerPays(i) ==
  /\ intents[i].row = "live"
  /\ intents[i].status = "requires_payment_method"
  /\ intents' = [intents EXCEPT ![i].status = "succeeded"]
  /\ resp' = NoResponse
  /\ UNCHANGED <<dashboard, subRows, authRows, stationRows, sessions, bookings, payments, inflight>>

\* payment.createPaymentIntent (protectedProcedure), up to the provider call:
\* every call asks the provider for a new intent.
createPaymentIntent(c, tok, amount, sessionId, bookingId) ==
  LET auth == authMiddleware(tok) IN
  /\ inflight[c] = Idle
  /\ UNCHANGED <<dashboard, subRows, authRows, stationRows, sessions, bookings, payments>>
  /\ IF ~auth.ok
     THEN /\ resp' = Denied("createPaymentIntent", auth, sessionId)
          /\ UNCHANGED <<intents, inflight>>
     ELSE \/ /\ resp' = PayReply("createPaymentIntent", auth.user,
                          "INTERNAL_SERVER_ERROR", "PROVIDER", sessionId, {})
             /\ UNCHANGED <<intents, inflight>>
          \/ \E i \in PaymentIds :
               /\ FreeIntent(i)
               /\ intents' = [intents EXCEPT ![i] =
                     [row |-> "live", status |-> "requires_payment_method",
                      amount |-> ToCents(amount), refunded |-> 0, refunds |-> 0]]
               /\ inflight' = [inflight EXCEPT ![c] =
                     [Idle EXCEPT !.op = "createPaymentIntent", !.pc = "persist",
                                  !.user = auth.user.id, !.tenantId = auth.user.tenantId,
                                  !.intent = i, !.amount = amount,
                                  !.sessionId = sessionId, !.bookingId = bookingId,
                                  !.before = Records]]
               /\ resp' = NoResponse

\* The payment row createPaymentIntent stores for the intent it was given.
NewPayment(c) ==
  [row |-> "live", amount |-> inflight[c].amount, status |-> "PENDING",
   stripePaymentId |-> inflight[c].intent, userId |-> inflight[c].user,
   sessionId |-> inflight[c].sessionId, bookingId |-> inflight[c].bookingId,
   metadata |-> {}, refundAmount |-> 0]

\* payment.createPaymentIntent, after the provider call: the payment row, whose
\* insert may reject.
createPaymentIntentPersist(c) ==
  /\ inflight[c].op = "createPaymentIntent"
  /\ inflight[c].pc = "persist"
  /\ UNCHANGED <<dashboard, subRows, authRows, stationRows, sessions, bookings, intents>>
  /\ \/ /\ WriteFails("createPaymentIntent", c, inflight[c].sessionId)
        /\ UNCHANGED payments
     \/ /\ \E p \in PaymentIds :
             /\ FreePayment(p)
             /\ payments' = [payments EXCEPT ![p] = NewPayment(c)]
             /\ resp' = PayReply("createPaymentIntent", SlotUser(c), "OK", "OK",
                          inflight[c].sessionId,
                          {[paymentId |-> p, status |-> "PENDING", amount |-> inflight[c].amount,
                            userId |-> inflight[c].user]})
        /\ Release(c)

\* payment.confirmPayment (protectedProcedure), up to the provider's answer: the
\* provider may fail to answer, knows no such intent, or reports its status.  The
\* handler's catch reports whatever was thrown as INTERNAL_SERVER_ERROR.
confirmPayment(c, tok, paymentIntentId) ==
  LET auth == authMiddleware(tok) IN
  /\ inflight[c] = Idle
  /\ UNCHANGED <<stationRows, sessions, payRows, authRows, dashboard, subRows>>
  /\ IF ~auth.ok
     THEN /\ resp' = Denied("confirmPayment", auth, paymentIntentId)
          /\ UNCHANGED inflight
     ELSE \/ /\ resp' = PayReply("confirmPayment", auth.user, "INTERNAL_SERVER_ERROR",
                          "PROVIDER", paymentIntentId, {})
             /\ UNCHANGED inflight
          \/ /\ intents[paymentIntentId].row = "live"
             /\ intents[paymentIntentId].status # "succeeded"
             /\ resp' = PayReply("confirmPayment", auth.user, "INTERNAL_SERVER_ERROR",
                          "BAD_REQUEST", paymentIntentId, {})
             /\ UNCHANGED inflight
          \/ /\ intents[paymentIntentId].row = "live"
             /\ intents[paymentIntentId].status = "succeeded"
             /\ inflight' = [inflight EXCEPT ![c] =
                   [Idle EXCEPT !.op = "confirmPayment", !.pc = "updatePayment",
                                !.user = auth.user.id, !.tenantId = auth.user.tenantId,
                                !.intent = paymentIntentId, !.before = Records]]
             /\ resp' = NoResponse

\* Every payment row of the caller, whatever its provider reference.
UserPayments(c) ==
  {p \in PaymentIds : payments[p].row = "live" /\ payments[p].userId = inflight[c].user}

\* The rows confirmPayment's payment.update addresses.
ConfirmTargets(c) ==
  {p \in PaymentIds : /\ payments[p].row = "live"
                      /\ payments[p].stripePaymentId = inflight[c].intent
                      /\ payments[p].userId = inflight[c].user}

\* The payment row as confirmPayment writes it: the status, and a metadata
\* object that replaces the stored one (the refund amount is one of its keys).
ConfirmedPayment(row) ==
  [row EXCEPT !.status = "COMPLETED", !.metadata = {"paymentMethodId", "confirmedAt"},
              !.refundAmount = 0]

\* A cost that grows by the amount each time it is written.
AccruedCost(old, amount) == old + amount

\* The cost confirmPayment writes on the bound session and booking.
ConfirmedCost(old, amount) == amount

ConfirmReply(c, p, amount) ==
  PayReply("confirmPayment", SlotUser(c), "OK", "OK", inflight[c].intent,
    {[paymentId |-> p, status |-> "COMPLETED", amount |-> amount, userId |-> inflight[c].user]})
ConfirmThrow(c) ==
  PayReply("confirmPayment", SlotUser(c), "INTERNAL_SERVER_ERROR", "P2025", inflight[c].intent, {})

\* payment.confirmPayment: the payment row write, which may reject.
confirmPaymentUpdate(c) ==
  /\ inflight[c].op = "confirmPayment"
  /\ inflight[c].pc = "updatePayment"
  /\ UNCHANGED <<dashboard, subRows, authRows, stationRows, sessions, bookings, intents>>
  /\ \/ /\ WriteFails("confirmPayment", c, inflight[c].intent)
        /\ UNCHANGED payments
     \/ IF ConfirmTargets(c) = {}
        THEN /\ resp' = ConfirmThrow(c)
             /\ Release(c)
             /\ UNCHANGED payments
        ELSE \E p \in ConfirmTargets(c) :
             /\ payments' = [payments EXCEPT ![p] = ConfirmedPayment(payments[p])]
             /\ IF payments[p].sessionId # 0 \/ payments[p].bookingId # 0
                THEN /\ inflight' = [inflight EXCEPT ![c] =
                           [@ EXCEPT !.pc = IF payments[p].sessionId # 0
                                            THEN "updateSession" ELSE "updateBooking",
                                     !.paymentId = p, !.amount = payments[p].amount,
                                     !.sessionId = payments[p].sessionId,
                                     !.bookingId = payments[p].bookingId]]
                     /\ resp' = NoResponse
                ELSE /\ resp' = ConfirmReply(c, p, payments[p].amount)
                     /\ Release(c)

\* payment.confirmPayment: the session cost write, which may reject.
confirmPaymentSession(c) ==
  /\ inflight[c].op = "confirmPayment"
  /\ inflight[c].pc = "updateSession"
  /\ UNCHANGED <<dashboard, subRows, authRows, stationRows, bookings, payments, intents>>
  /\ \/ /\ WriteFails("confirmPayment", c, inflight[c].intent)
        /\ UNCHANGED sessions
     \/ IF sessions[inflight[c].sessionId].row # "live"
        THEN /\ resp' = ConfirmThrow(c)
             /\ Release(c)
             /\ UNCHANGED sessions
        ELSE /\ sessions' = [sessions EXCEPT ![inflight[c].sessionId].cost =
                                ConfirmedCost(@, inflight[c].amount)]
             /\ IF inflight[c].bookingId # 0
                THEN /\ inflight' = [inflight EXCEPT ![c].pc = "updateBooking"]
                     /\ resp' = NoResponse
                ELSE /\ resp' = ConfirmReply(c, inflight[c].paymentId, inflight[c].amount)
                     /\ Release(c)

\* payment.confirmPayment: the booking cost write, which may reject, then the reply.
confirmPaymentBooking(c) ==
  /\ inflight[c].op = "confirmPayment"
  /\ inflight[c].pc = "updateBooking"
  /\ UNCHANGED <<dashboard, subRows, authRows, stationRows, sessions, payments, intents>>
  /\ \/ /\ WriteFails("confirmPayment", c, inflight[c].intent)
        /\ UNCHANGED bookings
     \/ /\ Release(c)
        /\ IF bookings[inflight[c].bookingId].row # "live"
           THEN /\ resp' = ConfirmThrow(c)
                /\ UNCHANGED bookings
           ELSE /\ bookings' = [bookings EXCEPT ![inflight[c].bookingId].totalCost =
                                   ConfirmedCost(@, inflight[c].amount)]
                /\ resp' = ConfirmReply(c, inflight[c].paymentId, inflight[c].amount)

\* payment.createSubscription (protectedProcedure), up to the provider call:
\* the provider creates a subscription for the caller's customer reference, or
\* rejects the request (no such customer, no such price, unreachable).  The
\* handler's catch reports whatever was thrown as INTERNAL_SERVER_ERROR.
createSubscription(c, tok, priceId) ==
  LET auth == authMiddleware(tok) IN
  /\ inflight[c] = Idle
  /\ UNCHANGED <<dashboard, authRows, stationRows, sessions, payRows, subscriptions>>
  /\ IF ~auth.ok
     THEN /\ resp' = Denied("createSubscription", auth, 0)
          /\ UNCHANGED <<stripeSubscriptions, inflight>>
     ELSE \/ /\ resp' = PayReply("createSubscription", auth.user,
                          "INTERNAL_SERVER_ERROR", "PROVIDER", 0, {})
             /\ UNCHANGED <<stripeSubscriptions, inflight>>
          \/ /\ stripeSubscriptions < MaxSubscriptions
             /\ stripeSubscriptions' = stripeSubscriptions + 1
             /\ inflight' = [inflight EXCEPT ![c] =
                   [Idle EXCEPT !.op = "createSubscription", !.pc = "persist",
                                !.user = auth.user.id, !.tenantId = auth.user.tenantId,
                                !.plan = priceId,
                                !.subscription = stripeSubscriptions + 1]]
             /\ resp' = NoResponse

\* payment.createSubscription, after the provider call: the subscription row
\* of the caller's tenant, whose insert may reject.
createSubscriptionPersist(c) ==
  /\ inflight[c].op = "createSubscription"
  /\ inflight[c].pc = "persist"
  /\ UNCHANGED <<dashboard, authRows, stationRows, sessions, payRows, stripeSubscriptions>>
  /\ \/ /\ WriteFails("createSubscription", c, 0)
        /\ UNCHANGED subscriptions
     \/ /\ \E i \in DOMAIN subscriptions :
             /\ subscriptions[i].row = "absent"
             /\ \A j \in DOMAIN subscriptions : subscriptions[j].row = "absent" => i <= j
             /\ subscriptions' = [subscriptions EXCEPT ![i] =
                   [row |-> "live", plan |-> inflight[c].plan, status |-> "ACTIVE",
                    stripeSubscriptionId |-> inflight[c].subscription,
                    tenantId |-> inflight[c].tenantId]]
             /\ resp' = PayReply("createSubscription", SlotUser(c), "OK", "OK", i,
                          {[subscriptionId |-> i,
                            stripeSubscriptionId |-> inflight[c].subscription]})
        /\ Release(c)

\* payment.getPaymentHistory (protectedProcedure)
getPaymentHistory(tok) ==
  LET auth == authMiddleware(tok) IN
  /\ UNCHANGED <<dashboard, subRows, authRows, stationRows, sessions, payRows, inflight>>
  /\ IF ~auth.ok
     THEN resp' = Denied("getPaymentHistory", auth, 0)
     ELSE resp' = PayReply("getPaymentHistory", auth.user, "OK", "OK", 0,
                    {PaymentView(p) : p \in {q \in PaymentIds :
                        payments[q].row = "live" /\ payments[q].userId = auth.user.id}})

\* A lookup that returns a COMPLETED payment whoever made it.
AnyCompleted(paymentId, userId) ==
  /\ payments[paymentId].row = "live"
  /\ payments[paymentId].status = "COMPLETED"

\* The payment refundPayment's findFirst returns: the caller's own, COMPLETED.
Refundable(paymentId, userId) ==
  /\ payments[paymentId].row = "live"
  /\ payments[paymentId].userId = userId
  /\ payments[paymentId].status = "COMPLETED"

\* payment.refundPayment (protectedProcedure), up to the lookup of the payment:
\* a payment that is not found, or has no provider reference, is NOT_FOUND.
refundPayment(c, tok, paymentId, amount) ==
  LET auth == authMiddleware(tok) IN
  /\ inflight[c] = Idle
  /\ UNCHANGED <<stationRows, sessions, payRows, authRows, dashboard, subRows>>
  /\ IF ~auth.ok
     THEN /\ resp' = Denied("refundPayment", auth, paymentId)
          /\ UNCHANGED inflight
     ELSE IF ~Refundable(paymentId, auth.user.id) \/ payments[paymentId].stripePaymentId = 0
     THEN /\ resp' = PayReply("refundPayment", auth.user, "INTERNAL_SERVER_ERROR", "NOT_FOUND",
                          paymentId, {})
          /\ UNCHANGED inflight
     ELSE /\ inflight' = [inflight EXCEPT ![c] =
                [Idle EXCEPT !.op = "refundPayment", !.pc = "refund",
                             !.user = auth.user.id, !.tenantId = auth.user.tenantId,
                             !.paymentId = paymentId, !.amount = amount,
                             !.intent = payments[paymentId].stripePaymentId,
                             !.metadata = payments[paymentId].metadata,
                             !.before = Records]]
          /\ resp' = NoResponse

\* The amount, in cents, the provider is asked to refund: the given one, else
\* whatever of the charge is not refunded yet.
RefundCents(c) ==
  IF inflight[c].amount # 0 THEN ToCents(inflight[c].amount)
  ELSE intents[inflight[c].intent].amount - intents[inflight[c].intent].refunded

\* The provider accepts a refund of a positive amount within what is left of the charge.
ProviderAccepts(i, cents) ==
  /\ cents > 0
  /\ intents[i].refunded + cents <= intents[i].amount

\* payment.refundPayment: the provider's refund, which the provider may refuse
\* or fail to answer.
refundPaymentProvider(c) ==
  /\ inflight[c].op = "refundPayment"
  /\ inflight[c].pc = "refund"
  /\ UNCHANGED <<dashboard, subRows, authRows, stationRows, sessions, bookings, payments>>
  /\ \/ /\ resp' = PayReply("refundPayment", SlotUser(c), "INTERNAL_SERVER_ERROR", "PROVIDER",
                     inflight[c].paymentId, {})
        /\ Release(c)
        /\ UNCHANGED intents
     \/ /\ ProviderAccepts(inflight[c].intent, RefundCents(c))
        /\ intents' = [intents EXCEPT ![inflight[c].intent].refunded = @ + RefundCents(c),
                                      ![inflight[c].intent].refunds = @ + 1]
        /\ inflight' = [inflight EXCEPT ![c].pc = "markRefunded", ![c].amount = RefundCents(c)]
        /\ resp' = NoResponse

\* The payment row as refundPayment writes it after the provider's refund.
RefundedPayment(row, c) ==
  [row EXCEPT !.status = "REFUNDED",
              !.metadata = inflight[c].metadata \cup {"refundId", "refundedAt", "refundAmount"},
              !.refundAmount = FromCents(inflight[c].amount)]

\* payment.refundPayment: the payment row write, which may reject, then the reply.
refundPaymentUpdate(c) ==
  /\ inflight[c].op = "refundPayment"
  /\ inflight[c].pc = "markRefunded"
  /\ UNCHANGED <<dashboard, subRows, authRows, stationRows, sessions, bookings, intents>>
  /\ \/ /\ WriteFails("refundPayment", c, inflight[c].paymentId)
        /\ UNCHANGED payments
     \/ /\ payments' = [payments EXCEPT ![inflight[c].paymentId] = RefundedPayment(@, c)]
        /\ resp' = PayReply("refundPayment", SlotUser(c), "OK", "OK", inflight[c].paymentId,
                     {[paymentId |-> inflight[c].paymentId, status |-> "REFUNDED",
                       amount |-> FromCents(inflight[c].amount), userId |-> inflight[c].user]})
        /\ Release(c)

\* ------------------------------------------------------------- auth router
\* An insert made outside any transaction shows at once.
Autocommit(table, id, row) == [table EXCEPT ![id] = row]
\* An insert made inside a storage transaction: the committed table does not
\* show it until the transaction commits.
InTransaction(table, id, row) == table

EmailTaken(email) == \E u \in Users : users[u].row = "live" /\ users[u].email = email

\* A tenant id no row and no open transaction uses.
FreeTenant(t) ==
  /\ tenants[t].row = "absent"
  /\ \A d \in Calls : inflight[d].op = "register" => inflight[d].tenantId # t

RegisterThrow(c, thrown) ==
  /\ resp' = Reply("register", NoUser, "INTERNAL_SERVER_ERROR", thrown, 0, {}, {}, NoStats, {})
  /\ Release(c)

\* auth.register (publicProcedure), up to the lookup of the e-mail and the
\* hashing of the password.
register(c, email, password) ==
  /\ inflight[c] = Idle
  /\ UNCHANGED <<stationRows, sessions, payRows, authRows, dashboard, subRows>>
  /\ IF EmailTaken(email)
     THEN /\ resp' = Failure("register", NoUser, "CONFLICT", 0)
          /\ UNCHANGED inflight
     ELSE /\ inflight' = [inflight EXCEPT ![c] =
                [Idle EXCEPT !.op = "register", !.pc = "createTenant", !.email = email,
                             !.password = bcryptHash(password)]]
          /\ resp' = NoResponse

\* auth.register: tx.tenant.create, the first statement of the transaction.
registerTenant(c) ==
  /\ inflight[c].op = "register"
  /\ inflight[c].pc = "createTenant"
  /\ UNCHANGED <<stationRows, sessions, payRows, users, redis, dashboard, subRows>>
  /\ \/ /\ RegisterThrow(c, "STORAGE")
        /\ UNCHANGED tenants
     \/ \E t \in Tenants :
          /\ FreeTenant(t)
          /\ tenants' = InTransaction(tenants, t, [row |-> "live", isActive |-> TRUE, domain |-> "none"])
          /\ inflight' = [inflight EXCEPT ![c].pc = "createUser", ![c].tenantId = t]
          /\ resp' = NoResponse

\* auth.register: tx.user.create and the commit, or the rollback when the
\* insert rejects (the e-mail is taken by now, the storage fails); then the
\* token goes back to the caller.
registerUser(c) ==
  /\ inflight[c].op = "register"
  /\ inflight[c].pc = "createUser"
  /\ UNCHANGED <<stationRows, sessions, payRows, redis, dashboard, subRows>>
  /\ \/ /\ RegisterThrow(c, IF EmailTaken(inflight[c].email) THEN "P2002" ELSE "STORAGE")
        /\ UNCHANGED <<tenants, users>>
     \/ /\ ~EmailTaken(inflight[c].email)
        /\ \E u \in Users :
             /\ users[u].row = "absent"
             /\ users' = [users EXCEPT ![u] =
                   [row |-> "live", email |-> inflight[c].email,
                    tenantId |-> inflight[c].tenantId, role |-> "TENANT_ADMIN",
                    isActive |-> TRUE, lastLoginAt |-> 0,
                    password |-> inflight[c].password]]
             /\ tenants' = [tenants EXCEPT ![inflight[c].tenantId] =
                   [row |-> "live", isActive |-> TRUE, domain |-> "none"]]
             /\ resp' = Reply("register", [id |-> u, tenantId |-> inflight[c].tenantId],
                          "OK", "OK", 0, {}, {}, NoStats, {})
        /\ Release(c)

\* The live user rows with the e-mail; the column is unique.
UsersWithEmail(email) == {u \in Users : users[u].row = "live" /\ users[u].email = email}

LoginFailure(credentials) ==
  [credentials |-> credentials] @@ Failure("login", NoUser, "UNAUTHORIZED", 0)

\* auth.login (publicProcedure), up to the await of the login time's write: the
\* user by e-mail, the tenant domain where one is given, the password, then the
\* token signed over the row as read.  The comparison rejects where the row
\* has no password hash, which the request boundary reports as
\* INTERNAL_SERVER_ERROR.  lastLoginAt counts the logins, up to MaxLogins.
login(c, email, password, tenantDomain) ==
  LET found == UsersWithEmail(email)
      credentials == [email |-> email, password |-> password, tenantDomain |-> tenantDomain]
  IN
  /\ inflight[c] = Idle
  /\ \A u \in found : users[u].lastLoginAt < MaxLogins
  /\ UNCHANGED <<stationRows, sessions, payRows, authRows, dashboard, subRows>>
  /\ IF found = {} \/ \E u \in found : ~users[u].isActive
     THEN /\ resp' = LoginFailure(credentials)
          /\ UNCHANGED inflight
     ELSE \E u \in found :
       IF tenantDomain # "none" /\ tenants[users[u].tenantId].domain # tenantDomain
       THEN /\ resp' = LoginFailure(credentials)
            /\ UNCHANGED inflight
       ELSE IF users[u].password = NoHash
       THEN /\ resp' = [credentials |-> credentials] @@
                         Reply("login", NoUser, "INTERNAL_SERVER_ERROR", "BCRYPT", 0,
                               {}, {}, NoStats, {})
            /\ UNCHANGED inflight
       ELSE IF ~bcryptCompare(password, users[u].password)
       THEN /\ resp' = LoginFailure(credentials)
            /\ UNCHANGED inflight
       ELSE /\ inflight' = [inflight EXCEPT ![c] =
                  [Idle EXCEPT !.op = "login", !.pc = "update", !.user = u,
                               !.tenantId = users[u].tenantId, !.email = email,
                               !.plain = password, !.tenantDomain = tenantDomain,
                               !.token = signJWT([userId |-> u, tenantId |-> users[u].tenantId,
                                                  role |-> users[u].role])]]
            /\ resp' = NoResponse

\* auth.login: the write of the login time.
loginUpdate(c) ==
  /\ inflight[c].op = "login"
  /\ inflight[c].pc = "update"
  /\ users' = [users EXCEPT ![inflight[c].user].lastLoginAt = @ + 1]
  /\ inflight' = [inflight EXCEPT ![c].pc = "session"]
  /\ resp' = NoResponse
  /\ UNCHANGED <<stationRows, sessions, payRows, tenants, redis, dashboard, subRows>>

\* auth.login: the session key, then the token goes back to the caller; when
\* the session store rejects the write the request boundary reports
\* INTERNAL_SERVER_ERROR, with the login time already written.
loginSession(c) ==
  LET credentials == [email |-> inflight[c].email, password |-> inflight[c].plain,
                      tenantDomain |-> inflight[c].tenantDomain]
  IN
  /\ inflight[c].op = "login"
  /\ inflight[c].pc = "session"
  /\ Release(c)
  /\ UNCHANGED <<stationRows, sessions, payRows, tenants, users, dashboard, subRows>>
  /\ \/ /\ resp' = [credentials |-> credentials] @@
                      Reply("login", NoUser, "INTERNAL_SERVER_ERROR", "REDIS", 0,
                            {}, {}, NoStats, {})
        /\ UNCHANGED redis
     \/ /\ redis' = [redis EXCEPT ![inflight[c].user] = inflight[c].token]
        /\ resp' = [credentials |-> credentials, token |-> inflight[c].token] @@
                     Response("login", ContextUser(inflight[c].user), "OK", 0, {}, {}, NoStats)

\* auth.me (protectedProcedure): the caller's own user row.
me(tok) ==
  LET auth == authMiddleware(tok) IN
  /\ UNCHANGED <<stationRows, sessions, payRows, authRows, dashboard, subRows, inflight>>
  /\ IF ~auth.ok
     THEN resp' = Denied("me", auth, 0)
     ELSE IF users[auth.user.id].row # "live"
       THEN resp' = Failure("me", auth.user, "NOT_FOUND", 0)
       ELSE resp' = Response("me", ContextUser(auth.user.id), "OK", 0, {}, {}, NoStats)

\* refreshToken: a new token signed over the old token's verified payload.
refreshToken(oldToken) ==
  LET decoded == verifyJWT(oldToken) IN
  IF decoded.ok
  THEN [ok |-> TRUE,
        token |-> signJWT([userId |-> decoded.userId, tenantId |-> decoded.tenantId,
                           role |-> decoded.role])]
  ELSE [ok |-> FALSE, token |-> NoToken]

\* auth.refresh (protectedProcedure): the new token is stored under the
\* caller's session key and returned; a failure of the refresh or of the
\* session store is answered UNAUTHORIZED by the handler's catch.
refresh(tok) ==
  LET auth == authMiddleware(tok)
      new == refreshToken(tok)
  IN
  /\ UNCHANGED <<stationRows, sessions, payRows, tenants, users, dashboard, subRows, inflight>>
  /\ IF ~auth.ok
     THEN /\ resp' = Denied("refresh", auth, 0)
          /\ UNCHANGED redis
     ELSE IF tok.kind = "none" \/ ~new.ok
       THEN /\ resp' = Failure("refresh", auth.user, "UNAUTHORIZED", 0)
            /\ UNCHANGED redis
       ELSE \/ /\ resp' = Reply("refresh", auth.user, "UNAUTHORIZED", "REDIS", 0,
                               {}, {}, NoStats, {})
               /\ UNCHANGED redis
            \/ /\ redis' = [redis EXCEPT ![auth.user.id] = new.token]
               /\ resp' = [token |-> new.token] @@
                             Response("refresh", auth.user, "OK", 0, {}, {}, NoStats)

\* auth.logout (protectedProcedure): the caller's session key is deleted.
logout(tok) ==
  LET auth == authMiddleware(tok) IN
  /\ UNCHANGED <<stationRows, sessions, payRows, tenants, users, dashboard, subRows, inflight>>
  /\ IF ~auth.ok
     THEN /\ resp' = Denied("logout", auth, 0)
          /\ UNCHANGED redis
     ELSE /\ redis' = [redis EXCEPT ![auth.user.id] = NoToken]
          /\ resp' = Response("logout", auth.user, "OK", 0, {}, {}, NoStats)

\* auth.changePassword (protectedProcedure), up to the await of the row write:
\* the stored hash is read and the current password verified against it.
changePassword(c, tok, currentPassword, newPassword) ==
  LET auth == authMiddleware(tok) IN
  /\ inflight[c] = Idle
  /\ UNCHANGED <<stationRows, sessions, payRows, authRows, dashboard, subRows>>
  /\ IF ~auth.ok
     THEN /\ resp' = Denied("changePassword", auth, 0)
          /\ UNCHANGED inflight
     ELSE LET user == users[auth.user.id] IN
       IF user.row # "live" \/ user.password = NoHash
       THEN /\ resp' = Failure("changePassword", auth.user, "NOT_FOUND", 0)
            /\ UNCHANGED inflight
       ELSE IF ~bcryptCompare(currentPassword, user.password)
         THEN /\ resp' = Failure("changePassword", auth.user, "UNAUTHORIZED", 0)
              /\ UNCHANGED inflight
         ELSE /\ inflight' = [inflight EXCEPT ![c] =
                    [Idle EXCEPT !.op = "changePassword", !.pc = "update",
                                 !.user = auth.user.id, !.tenantId = auth.user.tenantId,
                                 !.password = bcryptHash(newPassword)]]
              /\ resp' = NoResponse

\* auth.changePassword: the stored hash is replaced by the new password's.
changePasswordUpdate(c) ==
  /\ inflight[c].op = "changePassword"
  /\ inflight[c].pc = "update"
  /\ users' = [users EXCEPT ![inflight[c].user].password = inflight[c].password]
  /\ resp' = Response("changePassword", SlotUser(c), "OK", 0, {}, {}, NoStats)
  /\ Release(c)
  /\ UNCHANGED <<stationRows, sessions, payRows, tenants, redis, dashboard, subRows>>

\* --------------------------------------------------------- admin dashboard
\* Energies are counted in 1/7200 kWh and charging rates in tenths of a kW, so
\* that what a 5-second tick adds, (chargingRate / 3600) * 5 kWh, is a whole
\* number of units.
Energy(tenthsOfKWh) == tenthsOfKWh * 720
Min(a, b) == IF a <= b THEN a ELSE b

\* The sessions the RealtimeMonitor starts with.
mockSessions ==
  <<[id |-> 1, currentEnergy |-> Energy(455), targetEnergy |-> Energy(750),
     chargingRate |-> 225, status |-> "charging"],
    [id |-> 2, currentEnergy |-> Energy(682), targetEnergy |-> Energy(800),
     chargingRate |-> 180, status |-> "charging"],
    [id |-> 3, currentEnergy |-> Energy(895), targetEnergy |-> Energy(900),
     chargingRate |-> 52, status |-> "completing"]>>

\* What one tick adds to a session charging at the given rate.
Gain(chargingRate) == (chargingRate * 5 * 7200) \div (3600 * 10)

\* A session that loses a tick's energy.
Drain(session) ==
  [session EXCEPT !.currentEnergy = session.currentEnergy - Gain(session.chargingRate)]

\* A session after a tick: the energy grows by the gain, up to the target.
Accrue(session) ==
  [session EXCEPT !.currentEnergy =
     Min(session.targetEnergy, session.currentEnergy + Gain(session.chargingRate))]

\* RealtimeMonitor's interval timer: every session accrues.
tick ==
  /\ monitor' = [i \in DOMAIN monitor |-> Accrue(monitor[i])]
  /\ UNCHANGED <<stationRows, sessions, payRows, authRows, subRows, inflight, resp>>

Init ==
  /\ stations = [s \in StationIds |-> NoStation]
  /\ ports = [p \in PortIds |-> NoPort]
  /\ sessions = [x \in SessionIds |-> NoSession]
  /\ lastEvent = [p \in PortIds |-> "none"]
  /\ bookings = [b \in BookingIds |-> NoBooking]
  /\ payments = [p \in PaymentIds |-> NoPayment]
  /\ intents = [i \in PaymentIds |-> NoIntent]
  /\ tenants = TenantTable
  /\ users = UserTable
  /\ redis = NoSessions
  /\ monitor = mockSessions
  /\ subscriptions = [i \in 1 .. MaxSubscriptions |-> NoSubscription]
  /\ stripeSubscriptions = 0
  /\ inflight = [c \in Calls |-> Idle]
  /\ resp = NoResponse

\* A storage that already holds one tenant's station with a port, a charging
\* session on it and a booking, written by the services that own those rows.
InitSeeded ==
  /\ stations = [s \in StationIds |->
        IF s = 1 THEN [row |-> "live", tenantId |-> "t1", name |-> "n1"] ELSE NoStation]
  /\ ports = [p \in PortIds |->
        IF p = 1 THEN [row |-> "live", stationId |-> 1, status |-> "OCCUPIED"] ELSE NoPort]
  /\ sessions = [x \in SessionIds |->
        IF x = 1 THEN [row |-> "live", portId |-> 1, userId |-> "u1", status |-> "ACTIVE",
                       cost |-> 0]
        ELSE NoSession]
  /\ lastEvent = [p \in PortIds |-> "none"]
  /\ bookings = [b \in BookingIds |->
        IF b = 1 THEN [row |-> "live", userId |-> "u1", totalCost |-> 0] ELSE NoBooking]
  /\ payments = [p \in PaymentIds |-> NoPayment]
  /\ intents = [i \in PaymentIds |-> NoIntent]
  /\ tenants = TenantTable
  /\ users = UserTable
  /\ redis = NoSessions
  /\ monitor = mockSessions
  /\ subscriptions = [i \in 1 .. MaxSubscriptions |-> NoSubscription]
  /\ stripeSubscriptions = 0
  /\ inflight = [c \in Calls |-> Idle]
  /\ resp = NoResponse

\* The station router used by the administrators of the two tenants, with
\* requests that overlap.
NextStation ==
  \/ \E tok \in AdminTokens, name \in StationNames : create(tok, [name |-> name])
  \/ \E tok \in AdminTokens : list(tok)
  \/ \E tok \in AdminTokens, id \in StationIds : getById(tok, id)
  \/ \E tok \in AdminTokens, id \in StationIds, name \in StationNames :
        update(tok, [id |-> id, name |-> name])
  \/ \E tok \in AdminTokens, id \in StationIds : delete(tok, id)
  \/ \E c \in Calls, tok \in AdminTokens, id \in StationIds : addPort(c, tok, id)
  \/ \E c \in Calls : addPortCreate(c)
  \/ \E c \in Calls, tok \in AdminTokens, p \in PortIds, st \in {"OCCUPIED", "OUT_OF_ORDER"} :
        updatePortStatus(c, tok, p, st)
  \/ \E c \in Calls, io \in BOOLEAN : updatePortStatusEmit(c, io)
  \/ \E tok \in AdminTokens, id \in StationIds : getRealtimeStats(tok, id)

SpecStation == Init /\ [][NextStation]_vars

\* The callers that open payments: the driver u1, or nobody.
PayerTokens == {NoToken, signJWT(Claims("u1"))}

\* The driver opens payments of one amount for the session, the booking, both
\* or neither, pays and confirms them, with requests that overlap.
NextPayment ==
  \/ \E i \in PaymentIds : CustomerPays(i)
  \/ \E c \in Calls, tok \in PayerTokens, a \in {1},
        x \in {0} \cup SessionIds, b \in {0} \cup BookingIds :
        createPaymentIntent(c, tok, a, x, b)
  \/ \E c \in Calls : createPaymentIntentPersist(c)
  \/ \E c \in Calls, tok \in {signJWT(Claims("u1"))}, i \in PaymentIds : confirmPayment(c, tok, i)
  \/ \E c \in Calls : confirmPaymentUpdate(c)
  \/ \E c \in Calls : confirmPaymentSession(c)
  \/ \E c \in Calls : confirmPaymentBooking(c)
  \/ \E tok \in {signJWT(Claims("u1"))} : getPaymentHistory(tok)

SpecPayment == InitSeeded /\ [][NextPayment]_vars

\* Concurrent status updates of ports: two requests may be in flight at once.
NextPortRace ==
  \/ \E tok \in RequestTokens, name \in StationNames : create(tok, [name |-> name])
  \/ \E c \in Calls, tok \in RequestTokens, id \in StationIds : addPort(c, tok, id)
  \/ \E c \in Calls : addPortCreate(c)
  \/ \E c \in Calls, tok \in RequestTokens, p \in PortIds, st \in PortStatuses :
        updatePortStatus(c, tok, p, st)
  \/ \E c \in Calls, io \in BOOLEAN : updatePortStatusEmit(c, io)

SpecPortRace == Init /\ [][NextPortRace]_vars

\* A storage in which the driver u1 has opened one payment that is still PENDING.
InitOnePayment ==
  /\ stations = [s \in StationIds |->
        IF s = 1 THEN [row |-> "live", tenantId |-> "t1", name |-> "n1"] ELSE NoStation]
  /\ ports = [p \in PortIds |->
        IF p = 1 THEN [row |-> "live", stationId |-> 1, status |-> "OCCUPIED"] ELSE NoPort]
  /\ sessions = [x \in SessionIds |->
        IF x = 1 THEN [row |-> "live", portId |-> 1, userId |-> "u1", status |-> "ACTIVE",
                       cost |-> 0]
        ELSE NoSession]
  /\ lastEvent = [p \in PortIds |-> "none"]
  /\ bookings = [b \in BookingIds |->
        IF b = 1 THEN [row |-> "live", userId |-> "u1", totalCost |-> 0] ELSE NoBooking]
  /\ \E a \in Amounts, x \in {0} \cup SessionIds, b \in {0} \cup BookingIds :
        /\ payments = [p \in PaymentIds |->
              IF p = 1 THEN [row |-> "live", amount |-> a, status |-> "PENDING",
                             stripePaymentId |-> 1, userId |-> "u1", sessionId |-> x,
                             bookingId |-> b, metadata |-> {}, refundAmount |-> 0]
              ELSE NoPayment]
        /\ intents = [i \in PaymentIds |->
              IF i = 1 THEN [row |-> "live", status |-> "requires_payment_method",
                             amount |-> ToCents(a), refunded |-> 0, refunds |-> 0]
              ELSE NoIntent]
  /\ tenants = TenantTable
  /\ users = UserTable
  /\ redis = NoSessions
  /\ monitor = mockSessions
  /\ subscriptions = [i \in 1 .. MaxSubscriptions |-> NoSubscription]
  /\ stripeSubscriptions = 0
  /\ inflight = [c \in Calls |-> Idle]
  /\ resp = NoResponse

\* Concurrent confirmations and refunds of that payment.
NextPaymentRace ==
  \/ \E i \in PaymentIds : CustomerPays(i)
  \/ \E c \in Calls, tok \in RequestTokens, i \in PaymentIds : confirmPayment(c, tok, i)
  \/ \E c \in Calls : confirmPaymentUpdate(c)
  \/ \E c \in Calls : confirmPaymentSession(c)
  \/ \E c \in Calls : confirmPaymentBooking(c)
  \/ \E c \in Calls, tok \in RequestTokens, p \in PaymentIds, a \in {0} \cup Amounts :
        refundPayment(c, tok, p, a)
  \/ \E c \in Calls : refundPaymentProvider(c)
  \/ \E c \in Calls : refundPaymentUpdate(c)

SpecPaymentRace == InitOnePayment /\ [][NextPaymentRace]_vars
\* Concurrent and repeated confirmations of that payment, and nothing else.
NextConfirmRace ==
  \/ \E i \in PaymentIds : CustomerPays(i)
  \/ \E c \in Calls, tok \in RequestTokens, i \in PaymentIds : confirmPayment(c, tok, i)
  \/ \E c \in Calls : confirmPaymentUpdate(c)
  \/ \E c \in Calls : confirmPaymentSession(c)
  \/ \E c \in Calls : confirmPaymentBooking(c)

SpecConfirmRace == InitOnePayment /\ [][NextConfirmRace]_vars

\* ------------------------------------------------------------- properties
TenantOfPort(p) == stations[ports[p].stationId].tenantId
LivePayments == {p \in PaymentIds : payments[p].row = "live"}

\* The rows a response carries all belong to the caller's tenant.
OwnRowsOnly(r) ==
  /\ \A s \in r.stations : s.tenantId = r.tenantId
  /\ \A pt \in r.ports : stations[pt.stationId].tenantId = r.tenantId

\* C1: a read of a station by a caller of another tenant never returns data --
\* every successful getById, list or getRealtimeStats response carries rows of
\* the caller's own tenant only.
C1_CrossTenantReadDenied ==
  (resp.op \in {"getById", "list", "getRealtimeStats"} /\ resp.code = "OK") => OwnRowsOnly(resp)

\* A step changes live station and port rows only on behalf of their tenant.
OwnWritesOnly ==
  /\ \A s \in StationIds :
       (stations[s].row = "live" /\ stations'[s] # stations[s])
         => resp'.tenantId = stations[s].tenantId
  /\ \A p \in PortIds :
       (ports[p].row = "live" /\ ports'[p] # ports[p])
         => \E c \in Calls : /\ inflight'[c].op = "updatePortStatus"
                             /\ inflight'[c].portId = p
                             /\ inflight'[c].tenantId = TenantOfPort(p)

\* C2: a write by a caller of another tenant leaves the row unchanged -- every
\* step that changes a live station row or port row is taken by a request of
\* the tenant that owns the row.
C2_CrossTenantWriteDenied == [][OwnWritesOnly]_vars

\* C3: of two concurrent requests that claim the same port (set it OCCUPIED),
\* exactly one succeeds -- never are two of them both past the status write.
C3_OneClaimPerPort ==
  \A c1, c2 \in Calls :
    (/\ c1 # c2
     /\ inflight[c1].op = "updatePortStatus" /\ inflight[c2].op = "updatePortStatus"
     /\ inflight[c1].status = "OCCUPIED" /\ inflight[c2].status = "OCCUPIED")
      => inflight[c1].portId # inflight[c2].portId

\* C4: createPaymentIntent is idempotent on (sessionId, amount) -- a user never
\* has two PENDING payments, each with its own provider intent, for the same
\* session and the same amount.
C4_IntentIdempotent ==
  \A p, q \in LivePayments :
    (/\ payments[p].sessionId # 0
     /\ payments[p].sessionId = payments[q].sessionId
     /\ payments[p].amount = payments[q].amount
     /\ payments[p].userId = payments[q].userId
     /\ payments[p].status = "PENDING" /\ payments[q].status = "PENDING")
      => p = q

PaymentTransitions ==
  {<<"PENDING", "COMPLETED">>, <<"COMPLETED", "REFUNDED">>, <<"PENDING", "FAILED">>}

\* C5: a payment's status changes only PENDING -> COMPLETED, COMPLETED ->
\* REFUNDED or PENDING -> FAILED; REFUNDED and FAILED are never left.
C5_StatusTransitions ==
  [][\A p \in LivePayments :
       payments'[p].status # payments[p].status
         => <<payments[p].status, payments'[p].status>> \in PaymentTransitions]_vars

\* A refundPayment call that returns at once, made on the caller's own PENDING
\* or REFUNDED payment.
RefundOfUnrefundable ==
  /\ resp'.op = "refundPayment"
  /\ inflight' = inflight
  /\ resp'.target \in LivePayments
  /\ payments[resp'.target].userId = resp'.user
  /\ payments[resp'.target].status \in {"PENDING", "REFUNDED"}

\* C6: refundPayment on the caller's own PENDING or REFUNDED payment answers
\* with a conflict error, asks the provider for nothing and leaves the payment
\* as it was.
C6_RefundConflict ==
  [][RefundOfUnrefundable =>
       (resp'.code = "CONFLICT" /\ payments' = payments /\ intents' = intents)]_vars

\* C7: a charging session has at most one COMPLETED payment.
C7_OneCompletedPerSession ==
  \A x \in SessionIds :
    Cardinality({p \in LivePayments : payments[p].sessionId = x
                                       /\ payments[p].status = "COMPLETED"}) <= 1

\* C8: whatever the retries and interleavings of refundPayment, the provider
\* refunds a payment at most once.
C8_OneProviderRefund ==
  \A i \in PaymentIds : intents[i].refunds <= 1

\* C9: concurrent or repeated confirmations of one payment leave what a single
\* one leaves -- the bound session's cost and the bound booking's total cost
\* are the payment's amount once written, never a multiple of it, and when a
\* confirmation has returned the payment is COMPLETED with both costs written.
C9_ConfirmIdempotent ==
  \A p \in LivePayments :
    LET pay == payments[p]
        returned == resp.op = "confirmPayment" /\ resp.code = "OK"
                      /\ resp.target = pay.stripePaymentId
    IN /\ pay.sessionId # 0 => sessions[pay.sessionId].cost \in {0, pay.amount}
       /\ pay.bookingId # 0 => bookings[pay.bookingId].totalCost \in {0, pay.amount}
       /\ returned =>
            /\ pay.status = "COMPLETED"
            /\ pay.sessionId # 0 => sessions[pay.sessionId].cost = pay.amount
            /\ pay.bookingId # 0 => bookings[pay.bookingId].totalCost = pay.amount

\* One confirmation has returned while a second one of the same payment has
\* written the payment row and the session cost and is yet to write the booking.
C9_TwoConfirmations ==
  \E c \in Calls :
    /\ inflight[c].op = "confirmPayment"
    /\ inflight[c].pc = "updateBooking"
    /\ resp.op = "confirmPayment" /\ resp.code = "OK"
    /\ resp.target = inflight[c].intent
    /\ payments[inflight[c].paymentId].status = "COMPLETED"
    /\ inflight[c].sessionId # 0
    /\ sessions[inflight[c].sessionId].cost = inflight[c].amount
    /\ bookings[inflight[c].bookingId].totalCost = inflight[c].amount

\* C10: when the provider reports the intent as not succeeded, confirmPayment
\* answers with a bad-request error and the payment stays PENDING.
C10_UnpaidIsBadRequest ==
  (resp.op = "confirmPayment" /\ resp.thrown = "BAD_REQUEST")
    => /\ resp.code = "BAD_REQUEST"
       /\ \A p \in LivePayments :
            payments[p].stripePaymentId = resp.target => payments[p].status = "PENDING"

RefundKeys == {"refundId", "refundedAt", "refundAmount"}

\* What a step that answers a refundPayment call does to the payment: a refund
\* the provider made is recorded, a provider failure changes nothing and is
\* reported with the given error code.
RefundOutcome(failureCode) ==
  /\ (resp'.op = "refundPayment" /\ resp'.code = "OK")
       => /\ payments'[resp'.target].status = "REFUNDED"
          /\ RefundKeys \subseteq payments'[resp'.target].metadata
          /\ \A v \in resp'.payments : payments'[resp'.target].refundAmount = v.amount
  /\ (resp'.op = "refundPayment" /\ resp'.thrown = "PROVIDER")
       => /\ resp'.code = failureCode
          /\ payments' = payments
          /\ payments[resp'.target].status = "COMPLETED"

\* C11: in refundPayment a provider success moves the payment to REFUNDED and
\* records the refund id, time and amount in its metadata; a provider failure
\* leaves the payment COMPLETED with its metadata unchanged and is reported to
\* the caller as an external-service error.
C11_RefundOutcome == [][RefundOutcome("EXTERNAL_SERVICE_ERROR")]_vars

PaymentOps == {"createPaymentIntent", "confirmPayment", "refundPayment"}

\* A step that returns an error of a payment call leaves the payment, session
\* and booking rows as the call found them.
ErrorKeepsRecords ==
  (resp'.op \in PaymentOps /\ resp'.code \notin {"OK", "none"})
    => IF inflight' = inflight
       THEN Records' = Records
       ELSE \A c \in Calls :
              (inflight[c] # Idle /\ inflight'[c] = Idle) => Records' = inflight[c].before

\* C12: a createPaymentIntent, confirmPayment or refundPayment call that returns
\* an error leaves every payment, session and booking row exactly as it was
\* before the call, also when a cost write of confirmPayment fails after the
\* payment status write.
C12_ErrorKeepsRecords == [][ErrorKeepsRecords]_vars

\* A platform nobody has registered with yet.
InitUnregistered ==
  /\ stations = [s \in StationIds |-> NoStation]
  /\ ports = [p \in PortIds |-> NoPort]
  /\ sessions = [x \in SessionIds |-> NoSession]
  /\ lastEvent = [p \in PortIds |-> "none"]
  /\ bookings = [b \in BookingIds |-> NoBooking]
  /\ payments = [p \in PaymentIds |-> NoPayment]
  /\ intents = [i \in PaymentIds |-> NoIntent]
  /\ tenants = [t \in Tenants |-> NoTenant]
  /\ users = [u \in Users |-> NoAccount]
  /\ redis = NoSessions
  /\ monitor = mockSessions
  /\ subscriptions = [i \in 1 .. MaxSubscriptions |-> NoSubscription]
  /\ stripeSubscriptions = 0
  /\ inflight = [c \in Calls |-> Idle]
  /\ resp = NoResponse

\* Concurrent registrations.
NextRegister ==
  \/ \E c \in Calls, email \in Emails, password \in Passwords : register(c, email, password)
  \/ \E c \in Calls : registerTenant(c)
  \/ \E c \in Calls : registerUser(c)

SpecRegister == InitUnregistered /\ [][NextRegister]_vars

LiveTenants == {t \in Tenants : tenants[t].row = "live"}
LiveUsers == {u \in Users : users[u].row = "live"}

\* C13: registration is atomic -- whatever registrations ran, failed or raced,
\* every persisted tenant has its admin user and every user has its tenant.
C13_RegistrationAtomic ==
  /\ \A t \in LiveTenants :
       \E u \in LiveUsers : users[u].tenantId = t /\ users[u].role = "TENANT_ADMIN"
  /\ \A u \in LiveUsers : users[u].tenantId \in LiveTenants

\* Of two registrations with one e-mail that both passed the lookup, one has
\* committed its tenant and user and the other's user insert was just refused.
C13_LostRace ==
  /\ resp.op = "register" /\ resp.thrown = "P2002"
  /\ Cardinality(LiveTenants) = 1
  /\ Cardinality(LiveUsers) = 1

Administrative == {"OUT_OF_ORDER", "MAINTENANCE"}
PortTransitions ==
  {<<"AVAILABLE", "RESERVED">>, <<"RESERVED", "OCCUPIED">>, <<"OCCUPIED", "AVAILABLE">>}
    \cup ({"AVAILABLE", "OCCUPIED"} \X Administrative)
    \cup (Administrative \X {"AVAILABLE"})

\* A step creates ports AVAILABLE and changes a port's status along the port
\* life cycle only.
PortLifeCycle ==
  \A p \in PortIds :
    /\ (ports[p].row = "absent" /\ ports'[p].row = "live") => ports'[p].status = "AVAILABLE"
    /\ (ports[p].row = "live" /\ ports'[p].status # ports[p].status)
         => <<ports[p].status, ports'[p].status>> \in PortTransitions

\* C14: a port is created AVAILABLE and every change of its status is one of
\* AVAILABLE -> RESERVED, RESERVED -> OCCUPIED, OCCUPIED -> AVAILABLE,
\* AVAILABLE/OCCUPIED -> OUT_OF_ORDER/MAINTENANCE, OUT_OF_ORDER/MAINTENANCE ->
\* AVAILABLE; any other requested change is rejected.
C14_PortLifeCycle == [][PortLifeCycle]_vars

\* The station router on a storage that holds a port with a session charging
\* on it; every port id is in use, so no addPort request gets to its insert.
NextStationCharging ==
  \/ \E tok \in AdminTokens, name \in StationNames : create(tok, [name |-> name])
  \/ \E tok \in AdminTokens : list(tok)
  \/ \E tok \in AdminTokens, id \in StationIds : getById(tok, id)
  \/ \E tok \in AdminTokens, id \in StationIds, name \in StationNames :
        update(tok, [id |-> id, name |-> name])
  \/ \E tok \in AdminTokens, id \in StationIds : delete(tok, id)
  \/ \E c \in Calls, tok \in AdminTokens, id \in StationIds : addPort(c, tok, id)
  \/ \E c \in Calls, tok \in AdminTokens, p \in PortIds, st \in {"AVAILABLE", "OCCUPIED"} :
        updatePortStatus(c, tok, p, st)
  \/ \E c \in Calls, io \in BOOLEAN : updatePortStatusEmit(c, io)
  \/ \E tok \in AdminTokens, id \in StationIds : getRealtimeStats(tok, id)

SpecStationCharging == InitSeeded /\ [][NextStationCharging]_vars

\* C15: no port is AVAILABLE or RESERVED while it holds an ACTIVE session -- a
\* status change on such a port is refused unless the session is ended first.
C15_NoFreePortWithSession ==
  \A p \in LivePorts :
    ports[p].status \in {"AVAILABLE", "RESERVED"} => ActiveSessionsOf(p) = {}

\* C16: when a session start (the port set OCCUPIED) and a fault report (the
\* port set OUT_OF_ORDER) race on one port, the fault report wins -- with both
\* requests past their write, the port is OUT_OF_ORDER.
C16_FaultWins ==
  \A c1, c2 \in Calls :
    (/\ inflight[c1].op = "updatePortStatus" /\ inflight[c1].status = "OCCUPIED"
     /\ inflight[c2].op = "updatePortStatus" /\ inflight[c2].status = "OUT_OF_ORDER"
     /\ inflight[c1].portId = inflight[c2].portId)
      => ports[inflight[c2].portId].status = "OUT_OF_ORDER"

\* The dashboard left open: the timer ticks.
NextMonitor == tick

SpecMonitor == Init /\ [][NextMonitor]_vars

\* C17: energy accrual is monotonic -- over any sequence of energy updates, the
\* periodic accrual tick included, no session's currentEnergy ever decreases.
C17_EnergyMonotonic ==
  [][\A i \in DOMAIN monitor : monitor'[i].currentEnergy >= monitor[i].currentEnergy]_vars

\* Ticks have brought the third session to its target, where it is held, while
\* the first one is still accruing.
C17_CappedAndAccruing ==
  /\ monitor[3].currentEnergy = monitor[3].targetEnergy
  /\ monitor[1].currentEnergy > mockSessions[1].currentEnergy
  /\ monitor[1].currentEnergy < monitor[1].targetEnergy

\* The where clauses a caller can make up.
CallerWheres == {StationWhere(id, t) : id \in {0} \cup StationIds, t \in {"any"} \cup Tenants}

\* Reads through the tenant-scoped storage client, on stations of both tenants.
NextTenantGuard ==
  \/ \E tok \in RequestTokens, name \in StationNames : create(tok, [name |-> name])
  \/ \E tok \in RequestTokens, method \in ProxiedReads, args \in CallerWheres :
        proxiedRead(tok, method, args)

SpecTenantGuard == Init /\ [][NextTenantGuard]_vars

\* C18: in a tenantProcedure handler every storage read (findMany, findFirst,
\* findUnique, count, aggregate) runs with a filter whose tenantId is the
\* authenticated user's tenant, whatever tenantId, or none, the caller's
\* filter had (the rest of the filter is kept), so only own rows match.
C18_TenantFilterOverrides ==
  (resp.op \in ProxiedReads /\ resp.code = "OK")
    => /\ resp.where.tenantId = resp.tenantId
       /\ resp.where.id = resp.args.id
       /\ \A s \in resp.stations : s.tenantId = resp.tenantId

\* A read whose caller named another tenant in the filter, while stations of
\* that tenant exist that the filter as given would match, returned own rows.
C18_ForeignFilterGiven ==
  /\ resp.op \in ProxiedReads /\ resp.code = "OK"
  /\ resp.args.tenantId \in Tenants \ {resp.tenantId}
  /\ FindStations(resp.args) # {}
  /\ resp.stations # {}

\* What each station procedure answers for an id no station has.
AbsentCode(op) ==
  IF op \in {"getById", "getRealtimeStats", "addPort"} THEN "NOT_FOUND"
  ELSE "INTERNAL_SERVER_ERROR"

\* C19: to a caller of tenant T, the response of getById, getRealtimeStats,
\* addPort, update and delete for the id of another tenant's station is the
\* response for an id that does not exist -- the same error and no rows.
C19_ForeignLooksAbsent ==
  (/\ resp.op \in {"getById", "getRealtimeStats", "addPort", "update", "delete"}
   /\ resp.tenantId \in Tenants
   /\ resp.target \in LiveStations
   /\ stations[resp.target].tenantId # resp.tenantId)
    => /\ resp.code = AbsentCode(resp.op)
       /\ resp.stations = {}
       /\ resp.ports = {}

\* ---------------------------------------------------------- nearby stations
\* The query's LIMIT.
NearbyLimit == 50
\* Stations of the locator's scenario: two more than the query's limit, on one
\* meridian, one kilometre apart, each with one port.  Latitudes and radii are
\* counted in kilometres of arc from the query point's parallel, so that the
\* haversine distance of a station on the meridian of the query point is the
\* difference of the latitudes.
AtlasIds == 1 .. (NearbyLimit + 2)
ConnectorTypes == {"TYPE2", "CCS2"}
\* Radii that reach no station, two stations, and more than the limit.
NearRadii == {1, 3}
FarRadius == NearbyLimit + 3

Abs(n) == IF n < 0 THEN 0 - n ELSE n
Distance(s, latitude) == Abs(stations[s].latitude - latitude)

\* ORDER BY distance: the station ids of a set, nearest first.
NearestFirst(S, latitude) ==
  LET ids == [i \in 1 .. Cardinality(DOMAIN stations) |-> i]
      Selected(s) == s \in S
      Nearer(s, t) == Distance(s, latitude) < Distance(t, latitude)
  IN SortSeq(SelectSeq(ids, Selected), Nearer)

\* LIMIT n.
Take(seq, n) == SubSeq(seq, 1, Min(n, Len(seq)))

\* chargingPort.findMany of one station with the optional filters.
MatchingPorts(s, connectorType, availableOnly) ==
  {p \in DOMAIN ports :
     /\ ports[p].row = "live" /\ ports[p].stationId = s
     /\ connectorType # "none" => ports[p].connectorType = connectorType
     /\ availableOnly => ports[p].status = "AVAILABLE"}

\* A row of the raw query: the station with its distance.
NearbyRow(s, q) == [id |-> s, distance |-> Distance(s, q.latitude)]

\* A returned station: the row of the raw query with the ports read for it and
\* their counts.
NearbyView(row, q) ==
  LET found == MatchingPorts(row.id, q.connectorType, q.availableOnly) IN
  [id |-> row.id, distance |-> row.distance, chargingPorts |-> found,
   availablePorts |-> Cardinality({p \in found : ports[p].status = "AVAILABLE"}),
   totalPorts |-> Cardinality(found)]

\* The raw query: active stations within the radius, nearest first, cut at the limit.
NearbyQuery(q) ==
  LET nearest == Take(NearestFirst({s \in DOMAIN stations :
                                      /\ stations[s].row = "live"
                                      /\ stations[s].isActive
                                      /\ Distance(s, q.latitude) < q.radius},
                                   q.latitude),
                      NearbyLimit)
  IN [i \in DOMAIN nearest |-> NearbyRow(nearest[i], q)]

Offers(view, q) == ~q.availableOnly \/ view.availablePorts > 0

\* What findNearby returns: the queried stations, each with the ports read for
\* it, without those that have no available port when only available ones are
\* asked for.
NearbyResult(queried, views, q) ==
  LET withPorts == [i \in DOMAIN queried |-> CHOOSE v \in views : v.id = queried[i].id]
      Keep(view) == Offers(view, q)
  IN SelectSeq(withPorts, Keep)

\* The query a findNearby request in a slot came with.
SlotQuery(c) ==
  [latitude |-> inflight[c].latitude, radius |-> inflight[c].radius,
   connectorType |-> inflight[c].connectorType, availableOnly |-> inflight[c].availableOnly]

\* station.findNearby (protectedProcedure), up to the raw query's answer: the
\* storage runs the query or rejects it; the port reads of all returned
\* stations are then issued together.
findNearby(c, tok, latitude, radius, connectorType, availableOnly) ==
  LET auth == authMiddleware(tok)
      q == [latitude |-> latitude, radius |-> radius, connectorType |-> connectorType,
            availableOnly |-> availableOnly]
  IN
  /\ inflight[c] = Idle
  /\ UNCHANGED <<stationRows, sessions, payRows, authRows, dashboard, subRows>>
  /\ IF ~auth.ok
     THEN /\ resp' = Denied("findNearby", auth, 0)
          /\ UNCHANGED inflight
     ELSE \/ /\ resp' = Reply("findNearby", auth.user, "INTERNAL_SERVER_ERROR", "QUERY", 0,
                              {}, {}, NoStats, {})
             /\ UNCHANGED inflight
          \/ LET queried == NearbyQuery(q) IN
             IF queried = <<>>
             THEN /\ resp' = [query |-> q, nearby |-> <<>>] @@
                               Response("findNearby", auth.user, "OK", 0, {}, {}, NoStats)
                  /\ UNCHANGED inflight
             ELSE /\ inflight' = [inflight EXCEPT ![c] =
                        [Idle EXCEPT !.op = "findNearby", !.pc = "ports",
                                     !.user = auth.user.id, !.tenantId = auth.user.tenantId,
                                     !.latitude = latitude, !.radius = radius,
                                     !.connectorType = connectorType,
                                     !.availableOnly = availableOnly,
                                     !.found = queried,
                                     !.pending = {queried[i].id : i \in DOMAIN queried}]]
                  /\ resp' = NoResponse

\* station.findNearby: the port read of one returned station is answered, or
\* rejects, which the request boundary reports as INTERNAL_SERVER_ERROR; with
\* the last answer the stations go back to the caller.
findNearbyPorts(c, s) ==
  LET q == SlotQuery(c)
      found == inflight[c].found
      row == found[CHOOSE i \in DOMAIN found : found[i].id = s]
      views == inflight[c].views \cup {NearbyView(row, q)}
  IN
  /\ inflight[c].op = "findNearby"
  /\ s \in inflight[c].pending
  /\ UNCHANGED <<stationRows, sessions, payRows, authRows, dashboard, subRows>>
  /\ \/ /\ resp' = Reply("findNearby", SlotUser(c), "INTERNAL_SERVER_ERROR", "STORAGE", 0,
                         {}, {}, NoStats, {})
        /\ Release(c)
     \/ IF inflight[c].pending = {s}
        THEN /\ resp' = [query |-> q, nearby |-> NearbyResult(inflight[c].found, views, q)] @@
                          Response("findNearby", SlotUser(c), "OK", 0, {}, {}, NoStats)
             /\ Release(c)
        ELSE /\ inflight' = [inflight EXCEPT ![c].pending = @ \ {s}, ![c].views = views]
             /\ resp' = NoResponse

\* The first of the stations of a query whose port read is not answered yet.
FirstPending(c) ==
  LET found == inflight[c].found
      waiting == {i \in DOMAIN found : found[i].id \in inflight[c].pending}
  IN IF waiting = {} THEN 0 ELSE found[CHOOSE i \in waiting : \A j \in waiting : i <= j].id

\* A platform with more active stations in reach than the query's limit.
InitAtlas ==
  /\ stations = [s \in AtlasIds |->
        [row |-> "live", tenantId |-> IF s % 2 = 0 THEN "t2" ELSE "t1", name |-> "n1",
         latitude |-> s, isActive |-> TRUE]]
  /\ ports \in {[p \in AtlasIds |->
                   [row |-> "live", stationId |-> p,
                    status |-> IF p \in busy THEN "OCCUPIED" ELSE "AVAILABLE",
                    connectorType |-> IF p = 2 THEN "TYPE2" ELSE "CCS2"]] :
                busy \in SUBSET {1}}
  /\ sessions = [x \in SessionIds |-> NoSession]
  /\ lastEvent = [p \in PortIds |-> "none"]
  /\ bookings = [b \in BookingIds |-> NoBooking]
  /\ payments = [p \in PaymentIds |-> NoPayment]
  /\ intents = [i \in PaymentIds |-> NoIntent]
  /\ tenants = TenantTable
  /\ users = UserTable
  /\ redis = NoSessions
  /\ monitor = mockSessions
  /\ subscriptions = [i \in 1 .. MaxSubscriptions |-> NoSubscription]
  /\ stripeSubscriptions = 0
  /\ inflight = [c \in Calls |-> Idle]
  /\ resp = NoResponse

\* Queries of the atlas by requests that overlap; the port reads of a query
\* are answered in the order they were issued.
NextNearby ==
  \/ \E c \in Calls, tok \in PayerTokens, radius \in NearRadii,
        connectorType \in {"none"} \cup ConnectorTypes, availableOnly \in BOOLEAN :
        findNearby(c, tok, 0, radius, connectorType, availableOnly)
  \/ \E c \in Calls, tok \in PayerTokens, availableOnly \in BOOLEAN :
        findNearby(c, tok, 0, FarRadius, "none", availableOnly)
  \/ \E c \in Calls : findNearbyPorts(c, FirstPending(c))

SpecNearby == InitAtlas /\ [][NextNearby]_vars

\* The stations the claim calls eligible: active, within the radius, and, when
\* only available ones are asked for, with a matching AVAILABLE port.
Eligible(q) ==
  {s \in DOMAIN stations : /\ stations[s].row = "live" /\ stations[s].isActive
                           /\ Distance(s, q.latitude) < q.radius
                           /\ Offers(NearbyView(NearbyRow(s, q), q), q)}

\* C21: findNearby returns exactly the stations within the radius that pass
\* the port filters, nearest first, cut at 50 -- so no eligible station is left
\* out while fewer than 50 are returned.
C21_NearbyContract ==
  (resp.op = "findNearby" /\ resp.code = "OK")
    => /\ [i \in DOMAIN resp.nearby |-> resp.nearby[i].id]
            = Take(NearestFirst(Eligible(resp.query), resp.query.latitude), NearbyLimit)
       /\ \A i \in DOMAIN resp.nearby :
            resp.nearby[i] = NearbyView(NearbyRow(resp.nearby[i].id, resp.query), resp.query)

\* -------------------------------------------------------- revenue analytics
\* Dates are days counted from a Sunday that is the first day of a 31-day
\* month (as 2023-01-01), in the server's own time zone: UTC.
RevenueDates == {0, 1, 8, 31}
GroupBys == {"day", "week", "month"}
LedgerIds == {1, 2}
LedgerPayments == {1, 2, 3}

\* The bucket key of a date: the date, the Sunday of its week, the first day
\* of its month.
BucketKey(groupBy, date) ==
  IF groupBy = "week" THEN date - (date % 7)
  ELSE IF groupBy = "month" THEN (IF date < 31 THEN 0 ELSE 31)
  ELSE date

\* The tenant of the station of the port of the session a payment is bound to,
\* or none where the chain breaks.
SessionTenant(p) ==
  LET x == payments[p].sessionId IN
  IF x = 0 \/ x \notin DOMAIN sessions THEN "none"
  ELSE IF sessions[x].row # "live" \/ sessions[x].portId \notin DOMAIN ports THEN "none"
  ELSE LET port == ports[sessions[x].portId] IN
    IF port.row # "live" \/ port.stationId \notin DOMAIN stations THEN "none"
    ELSE IF stations[port.stationId].row # "live" THEN "none"
    ELSE stations[port.stationId].tenantId

\* A payment filter that does not look at the station's tenant.
AnyTenantPayments(tenantId, startDate, endDate) ==
  {p \in DOMAIN payments :
     /\ payments[p].row = "live" /\ payments[p].status = "COMPLETED"
     /\ payments[p].createdAt >= startDate /\ payments[p].createdAt <= endDate
     /\ SessionTenant(p) # "none"}

\* payment.findMany of getRevenueAnalytics: COMPLETED, created in the window,
\* bound to a session on a port of a station of the tenant.
RevenuePayments(tenantId, startDate, endDate) ==
  {p \in DOMAIN payments :
     /\ payments[p].row = "live" /\ payments[p].status = "COMPLETED"
     /\ payments[p].createdAt >= startDate /\ payments[p].createdAt <= endDate
     /\ SessionTenant(p) = tenantId}

\* payments.reduce into groupedData: each payment adds its amount and one
\* session to the bucket of its key.
RECURSIVE GroupedData(_, _, _)
GroupedData(found, groupBy, acc) ==
  IF found = {} THEN acc
  ELSE LET p == CHOOSE q \in found : TRUE
           key == BucketKey(groupBy, payments[p].createdAt)
           old == IF key \in DOMAIN acc THEN acc[key]
                  ELSE [date |-> key, revenue |-> 0, sessionCount |-> 0]
           new == [old EXCEPT !.revenue = @ + payments[p].amount, !.sessionCount = @ + 1]
       IN GroupedData(found \ {p}, groupBy,
                      [k \in DOMAIN acc \cup {key} |-> IF k = key THEN new ELSE acc[k]])

\* payments.reduce((sum, p) => sum + p.amount, 0).
RECURSIVE SumAmounts(_)
SumAmounts(found) ==
  IF found = {} THEN 0
  ELSE LET p == CHOOSE q \in found : TRUE IN payments[p].amount + SumAmounts(found \ {p})

\* payment.getRevenueAnalytics (protectedProcedure).  An average is kept as
\* the pair it is the quotient of.
getRevenueAnalytics(tok, startDate, endDate, groupBy) ==
  LET auth == authMiddleware(tok) IN
  /\ UNCHANGED <<stationRows, sessions, payRows, authRows, dashboard, subRows, inflight>>
  /\ IF ~auth.ok
     THEN resp' = Denied("getRevenueAnalytics", auth, 0)
     ELSE LET found == RevenuePayments(auth.user.tenantId, startDate, endDate)
              grouped == GroupedData(found, groupBy, <<>>)
          IN resp' =
               [query |-> [startDate |-> startDate, endDate |-> endDate, groupBy |-> groupBy],
                data |-> {[date |-> grouped[k].date, revenue |-> grouped[k].revenue,
                           sessionCount |-> grouped[k].sessionCount,
                           avgSessionValue |-> <<grouped[k].revenue, grouped[k].sessionCount>>] :
                          k \in DOMAIN grouped},
                summary |-> [totalRevenue |-> SumAmounts(found),
                             totalSessions |-> Cardinality(found),
                             avgSessionValue |-> IF Cardinality(found) > 0
                                                 THEN <<SumAmounts(found), Cardinality(found)>>
                                                 ELSE <<0, 1>>]] @@
               Response("getRevenueAnalytics", auth.user, "OK", 0, {}, {}, NoStats)

\* A ledger of three payments: each tenant has a station with a port and a
\* session on it; the payments differ in status, date and binding.
LedgerPayment(status, createdAt, sessionId, amount) ==
  [row |-> "live", amount |-> amount, status |-> status, stripePaymentId |-> 0,
   userId |-> "u1", sessionId |-> sessionId, bookingId |-> IF sessionId = 0 THEN 1 ELSE 0,
   metadata |-> {}, refundAmount |-> 0, createdAt |-> createdAt]

InitLedger ==
  /\ stations = [s \in LedgerIds |->
        [row |-> "live", tenantId |-> IF s = 1 THEN "t1" ELSE "t2", name |-> "n1"]]
  /\ ports = [p \in LedgerIds |-> [row |-> "live", stationId |-> p, status |-> "AVAILABLE"]]
  /\ sessions = [x \in LedgerIds |->
        [row |-> "live", portId |-> x, userId |-> "u1", status |-> "COMPLETED", cost |-> 0]]
  /\ lastEvent = [p \in PortIds |-> "none"]
  /\ bookings = [b \in BookingIds |-> NoBooking]
  /\ \E st \in {"PENDING", "COMPLETED"}, d1, d2 \in RevenueDates,
        x1 \in {0} \cup LedgerIds, x2 \in LedgerIds :
        payments = [p \in LedgerPayments |->
          IF p = 1 THEN LedgerPayment(st, d1, x1, 1)
          ELSE IF p = 2 THEN LedgerPayment("COMPLETED", d2, x2, 2)
          ELSE LedgerPayment("COMPLETED", 1, 1, 2)]
  /\ intents = [i \in PaymentIds |-> NoIntent]
  /\ tenants = TenantTable
  /\ users = UserTable
  /\ redis = NoSessions
  /\ monitor = mockSessions
  /\ subscriptions = [i \in 1 .. MaxSubscriptions |-> NoSubscription]
  /\ stripeSubscriptions = 0
  /\ inflight = [c \in Calls |-> Idle]
  /\ resp = NoResponse

RevenueTokens == {NoToken, signJWT(Claims("u1")), signJWT(Claims("u2"))}

NextRevenue ==
  \E tok \in RevenueTokens, startDate \in RevenueDates, endDate \in RevenueDates,
     groupBy \in GroupBys :
    startDate <= endDate /\ getRevenueAnalytics(tok, startDate, endDate, groupBy)

SpecRevenue == InitLedger /\ [][NextRevenue]_vars

\* The payments the claim counts for a tenant and a window.
Counted(tenantId, q) ==
  {p \in DOMAIN payments :
     /\ payments[p].status = "COMPLETED"
     /\ q.startDate <= payments[p].createdAt /\ payments[p].createdAt <= q.endDate
     /\ \E x \in DOMAIN sessions :
          /\ payments[p].sessionId = x
          /\ stations[ports[sessions[x].portId].stationId].tenantId = tenantId}

RECURSIVE Total(_, _)
Total(buckets, field) ==
  IF buckets = {} THEN 0
  ELSE LET b == CHOOSE c \in buckets : TRUE IN b[field] + Total(buckets \ {b}, field)

\* C22: getRevenueAnalytics of a caller of tenant T counts exactly the
\* COMPLETED payments created in the window and bound to a session on a
\* station of T: every such payment is in exactly one bucket, a bucket's
\* revenue and sessionCount are the sum and the number of its payments, and
\* the summary's totals are the sums over the buckets.
C22_RevenueCounts ==
  (resp.op = "getRevenueAnalytics" /\ resp.code = "OK")
    => LET counted == Counted(resp.tenantId, resp.query)
           InBucket(b) == {p \in counted :
                             BucketKey(resp.query.groupBy, payments[p].createdAt) = b.date}
       IN /\ \A p \in counted : Cardinality({b \in resp.data : p \in InBucket(b)}) = 1
          /\ \A b \in resp.data :
               /\ InBucket(b) # {}
               /\ b.revenue = SumAmounts(InBucket(b))
               /\ b.sessionCount = Cardinality(InBucket(b))
          /\ resp.summary.totalRevenue = Total(resp.data, "revenue")
          /\ resp.summary.totalSessions = Total(resp.data, "sessionCount")
          /\ resp.summary.totalRevenue = SumAmounts(counted)

\* An analytics answer with a bucket of two payments, while the ledger has a
\* COMPLETED payment of the window on the other tenant's station.
C22_ForeignLeftOut ==
  /\ resp.op = "getRevenueAnalytics" /\ resp.code = "OK"
  /\ \E b \in resp.data : b.sessionCount = 2 /\ b.revenue = 3
  /\ \E p \in DOMAIN payments :
       /\ payments[p].status = "COMPLETED"
       /\ payments[p].createdAt >= resp.query.startDate
       /\ payments[p].createdAt <= resp.query.endDate
       /\ SessionTenant(p) \in Tenants \ {resp.tenantId}

\* ------------------------------------------------------------ the auth gate
\* Tokens authMiddleware must turn away: none, one whose signature does not
\* verify, one signed for a user id no row has, one signed for the deactivated
\* user.
BadTokens == {NoToken, ForgedToken, signJWT(Claims("u0")), signJWT(Claims("u3"))}
GateTokens == BadTokens \cup {signJWT(Claims("u1"))}

\* A call of a station procedure, of a payment procedure, of a protected auth
\* procedure, with the given token: every procedure the three routers build
\* with protectedProcedure or tenantProcedure.  The middleware runs before the
\* input reaches the handler, so each procedure is called with one input (and
\* every station id, every request slot).
StationCall(tok) ==
  \/ create(tok, [name |-> "n1"])
  \/ list(tok)
  \/ \E id \in StationIds : getById(tok, id)
  \/ \E id \in StationIds : update(tok, [id |-> id, name |-> "n2"])
  \/ \E id \in StationIds : delete(tok, id)
  \/ \E c \in Calls : addPort(c, tok, 1)
  \/ \E c \in Calls : updatePortStatus(c, tok, 1, "AVAILABLE")
  \/ \E c \in Calls : findNearby(c, tok, 0, 1, "none", FALSE)
  \/ \E id \in StationIds : getRealtimeStats(tok, id)

PaymentCall(tok) ==
  \/ \E c \in Calls : createPaymentIntent(c, tok, 1, 1, 0)
  \/ \E c \in Calls : confirmPayment(c, tok, 1)
  \/ getPaymentHistory(tok)
  \/ \E c \in Calls : refundPayment(c, tok, 1, 0)
  \/ \E c \in Calls : createSubscription(c, tok, "p1")
  \/ getRevenueAnalytics(tok, 0, 1, "day")

AuthCall(tok) ==
  \/ me(tok)
  \/ refresh(tok)
  \/ logout(tok)
  \/ \E c \in Calls : changePassword(c, tok, "pw1", "pw2")

ProtectedCall(tok) == StationCall(tok) \/ PaymentCall(tok) \/ AuthCall(tok)

\* Requests without a valid credential on every protected procedure of a
\* platform with a station, a port, a session and a booking, while one
\* administrator refreshes the token, logs out, changes the password and
\* subscribes the tenant.
NextAuthGate ==
  \/ \E tok \in BadTokens : StationCall(tok)
  \/ \E tok \in BadTokens : PaymentCall(tok)
  \/ \E tok \in GateTokens : AuthCall(tok)
  \/ \E c \in Calls : changePasswordUpdate(c)
  \/ \E c \in Calls : createSubscription(c, signJWT(Claims("u1")), "p1")
  \/ \E c \in Calls : createSubscriptionPersist(c)

SpecAuthGate == InitSeeded /\ [][NextAuthGate]_vars

\* The request is answered UNAUTHORIZED on behalf of nobody; no row, no session
\* key and no request slot changes.
TurnedAway ==
  /\ resp'.code = "UNAUTHORIZED"
  /\ resp'.user = "none"
  /\ UNCHANGED <<stationRows, sessions, payRows, authRows, dashboard, subRows, inflight>>

GateHolds == \A tok \in BadTokens : ProtectedCall(tok) => TurnedAway

InitTwoPayments ==
  /\ stations = [s \in StationIds |->
        IF s = 1 THEN [row |-> "live", tenantId |-> "t1", name |-> "n1"] ELSE NoStation]
  /\ ports = [p \in PortIds |->
        IF p = 1 THEN [row |-> "live", stationId |-> 1, status |-> "OCCUPIED"] ELSE NoPort]
  /\ sessions = [x \in SessionIds |->
        IF x = 1 THEN [row |-> "live", portId |-> 1, userId |-> "u1", status |-> "ACTIVE",
                       cost |-> 0]
        ELSE NoSession]
  /\ lastEvent = [p \in PortIds |-> "none"]
  /\ bookings = [b \in BookingIds |->
        IF b = 1 THEN [row |-> "live", userId |-> "u1", totalCost |-> 0] ELSE NoBooking]
  /\ \E owner \in {"u1", "u2"}, x \in {0, 1} :
        payments = [p \in PaymentIds |->
          IF p = 1 THEN [row |-> "live", amount |-> 1, status |-> "PENDING",
                         stripePaymentId |-> 1, userId |-> "u1", sessionId |-> 1,
                         bookingId |-> 0, metadata |-> {}, refundAmount |-> 0]
          ELSE IF p = 2 THEN [row |-> "live", amount |-> 2, status |-> "PENDING",
                         stripePaymentId |-> 2, userId |-> owner, sessionId |-> x,
                         bookingId |-> 1 - x, metadata |-> {}, refundAmount |-> 0]
          ELSE NoPayment]
  /\ intents = [i \in PaymentIds |->
        IF i \in {1, 2} THEN [row |-> "live", status |-> "requires_payment_method",
                              amount |-> ToCents(i), refunded |-> 0, refunds |-> 0]
        ELSE NoIntent]
  /\ tenants = TenantTable
  /\ users = UserTable
  /\ redis = NoSessions
  /\ monitor = mockSessions
  /\ subscriptions = [i \in 1 .. MaxSubscriptions |-> NoSubscription]
  /\ stripeSubscriptions = 0
  /\ inflight = [c \in Calls |-> Idle]
  /\ resp = NoResponse

\* Confirmations and full refunds of the two payments by either user, with
\* requests that overlap.
NextTwoPaymentsRace ==
  \/ \E i \in PaymentIds : CustomerPays(i)
  \/ \E c \in Calls, tok \in AdminTokens, i \in PaymentIds : confirmPayment(c, tok, i)
  \/ \E c \in Calls : confirmPaymentUpdate(c)
  \/ \E c \in Calls : confirmPaymentSession(c)
  \/ \E c \in Calls : confirmPaymentBooking(c)
  \/ \E c \in Calls, tok \in AdminTokens, p \in PaymentIds : refundPayment(c, tok, p, 0)
  \/ \E c \in Calls : refundPaymentProvider(c)
  \/ \E c \in Calls : refundPaymentUpdate(c)

SpecTwoPaymentsRace == InitTwoPayments /\ [][NextTwoPaymentsRace]_vars

\* A step that makes a payment COMPLETED, or takes it out of PENDING, is the
\* payment write of a confirmPayment call (the request that moves in the step)
\* made for the payment's own provider reference, for which the provider
\* reports success.
CompletedByConfirm ==
  \A p \in LivePayments :
    (/\ payments'[p].status # payments[p].status
     /\ payments'[p].status = "COMPLETED" \/ payments[p].status = "PENDING")
      => /\ payments'[p].status = "COMPLETED"
         /\ \E c \in Calls :
              /\ inflight[c].op = "confirmPayment" /\ inflight[c].pc = "updatePayment"
              /\ inflight'[c] # inflight[c]
              /\ inflight[c].intent = payments[p].stripePaymentId
              /\ intents[inflight[c].intent].status = "succeeded"

\* C23: a payment becomes COMPLETED only inside a confirmPayment call in which
\* the provider reported success for the payment's own provider reference, and
\* a payment that is not confirmed stays PENDING.
C23_CompletedByConfirm == [][CompletedByConfirm]_vars

\* One payment was confirmed and is COMPLETED, and a refund of it that came in
\* during the confirmation is under way, while the customer has paid the other
\* at the provider and nobody confirmed it: it is still PENDING.
C23_PaidButUnconfirmed ==
  /\ resp.op = "confirmPayment" /\ resp.code = "OK"
  /\ \E p, q \in LivePayments :
       /\ payments[p].status = "COMPLETED" /\ payments[p].stripePaymentId = resp.target
       /\ \E c \in Calls : inflight[c].op = "refundPayment" /\ inflight[c].paymentId = p
       /\ payments[q].status = "PENDING"
       /\ intents[payments[q].stripePaymentId].status = "succeeded"

\* A step that answers a registration whose e-mail a user already has, be it
\* found by the lookup or by the insert: a conflict, and no new row.
DuplicateIsConflict ==
  (resp'.op = "register" /\ resp'.thrown \in {"CONFLICT", "P2002"})
    => /\ resp'.code = "CONFLICT"
       /\ tenants' = tenants /\ users' = users

\* C24: auth.register with an e-mail that belongs to a user fails with a
\* conflict error and creates neither a tenant nor a user; of two concurrent
\* registrations with one e-mail, the one that does not succeed fails with a
\* conflict error.
C24_DuplicateIsConflict == [][DuplicateIsConflict]_vars

\* C25: every payment createPaymentIntent has persisted is bound to a session
\* or to a booking, and not to both.
C25_OneBinding ==
  \A p \in LivePayments : (payments[p].sessionId # 0) # (payments[p].bookingId # 0)

\* A step in which a confirmPayment call returns success: the payment with the
\* confirmed reference is COMPLETED, and the session and the booking it is
\* bound to cost its amount.
ConfirmReturn ==
  (resp'.op = "confirmPayment" /\ resp'.code = "OK")
    => \E p \in PaymentIds :
         LET pay == payments'[p]
         IN /\ pay.row = "live" /\ pay.stripePaymentId = resp'.target
            /\ pay.status = "COMPLETED"
            /\ pay.sessionId # 0 => sessions'[pay.sessionId].cost = pay.amount
            /\ pay.bookingId # 0 => bookings'[pay.bookingId].totalCost = pay.amount

\* A step of a confirmPayment call changes no payment but those with the
\* call's reference, and no session or booking but those such a payment is
\* bound to.
ConfirmFrame ==
  \A c \in Calls :
    (inflight[c].op = "confirmPayment" /\ inflight'[c] # inflight[c])
      => LET own == {p \in PaymentIds : /\ payments[p].row = "live"
                                         /\ payments[p].stripePaymentId = inflight[c].intent}
         IN /\ \A q \in PaymentIds \ own : payments'[q] = payments[q]
            /\ \A x \in SessionIds \ {payments[p].sessionId : p \in own} :
                 sessions'[x] = sessions[x]
            /\ \A b \in BookingIds \ {payments[p].bookingId : p \in own} :
                 bookings'[b] = bookings[b]

ConfirmEffect == ConfirmReturn /\ ConfirmFrame

\* C26: when confirmPayment returns success for a provider reference, the
\* payment with that reference is COMPLETED, the session it is bound to costs
\* the payment's amount, the booking it is bound to has the amount as total
\* cost, and no other payment, session or booking is changed.
C26_ConfirmEffect == [][ConfirmEffect]_vars

\* -------------------------------------------------------------------- login
TenantDomains == {"none", "d1", "d2"}

\* Logins with every combination of e-mail, password and tenant domain, while
\* the administrators change their passwords and log out.
NextLogin ==
  \/ \E c \in Calls, email \in Emails, password \in Passwords, tenantDomain \in TenantDomains :
        login(c, email, password, tenantDomain)
  \/ \E c \in Calls : loginUpdate(c)
  \/ \E c \in Calls : loginSession(c)
  \/ \E c \in Calls, tok \in AdminTokens, currentPassword \in Passwords,
        newPassword \in Passwords :
        changePassword(c, tok, currentPassword, newPassword)
  \/ \E c \in Calls : changePasswordUpdate(c)
  \/ \E tok \in AdminTokens : logout(tok)

\* The platform's users; the second administrator's row may be one without a
\* password hash.
InitLogin ==
  /\ stations = [s \in StationIds |-> NoStation]
  /\ ports = [p \in PortIds |-> NoPort]
  /\ sessions = [x \in SessionIds |-> NoSession]
  /\ lastEvent = [p \in PortIds |-> "none"]
  /\ bookings = [b \in BookingIds |-> NoBooking]
  /\ payments = [p \in PaymentIds |-> NoPayment]
  /\ intents = [i \in PaymentIds |-> NoIntent]
  /\ tenants = TenantTable
  /\ users \in {UserTable, [UserTable EXCEPT !["u2"].password = NoHash]}
  /\ redis = NoSessions
  /\ monitor = mockSessions
  /\ subscriptions = [i \in 1 .. MaxSubscriptions |-> NoSubscription]
  /\ stripeSubscriptions = 0
  /\ inflight = [c \in Calls |-> Idle]
  /\ resp = NoResponse

SpecLogin == InitLogin /\ [][NextLogin]_vars

\* A step that answers a login: a token is issued exactly when a user has the
\* e-mail, is active, is of the tenant of the domain given and has the
\* password; the token is signed over that user's stored id, tenant and role;
\* otherwise the answer is UNAUTHORIZED, given before the call wrote anything:
\* no request was past its checks, and no user row or session key changes.
LoginRule ==
  resp'.op = "login"
    => LET given == resp'.credentials
           Entitled(u) ==
             /\ users[u].row = "live" /\ users[u].email = given.email
             /\ users[u].isActive
             /\ given.tenantDomain # "none"
                  => tenants[users[u].tenantId].domain = given.tenantDomain
             /\ users[u].password = bcryptHash(given.password)
       IN /\ (resp'.code = "OK") <=> (\E u \in Users : Entitled(u))
          /\ resp'.code = "OK"
               => \E u \in Users :
                    /\ Entitled(u)
                    /\ resp'.token = [kind |-> "signed", userId |-> u,
                                       tenantId |-> users[u].tenantId, role |-> users[u].role]
          /\ resp'.code # "OK"
               => /\ resp'.code = "UNAUTHORIZED"
                  /\ inflight' = inflight
                  /\ users' = users /\ redis' = redis

\* C27: auth.login issues a token if and only if the user exists, is active,
\* the tenant domain, when given, is the user's tenant's, and the password
\* verifies; the token carries the user's stored id, tenantId and role; a
\* failed login gets an authentication error and changes neither lastLoginAt
\* nor the user's session entry.
C27_LoginRule == [][LoginRule]_vars

\* A step that changes a payment's status or metadata, or has the provider
\* refund it, is a step of a confirmPayment or refundPayment call (the request
\* that moves in the step) of the user the payment belongs to.
OwnPaymentsOnly ==
  \A p \in LivePayments :
    (\/ payments'[p].status # payments[p].status
     \/ payments'[p].metadata # payments[p].metadata
     \/ intents'[payments[p].stripePaymentId].refunds
          # intents[payments[p].stripePaymentId].refunds)
      => \E c \in Calls :
           /\ inflight[c].op \in {"confirmPayment", "refundPayment"}
           /\ inflight'[c] # inflight[c]
           /\ inflight[c].user = payments[p].userId

\* C28: confirmPayment and refundPayment calls of a user never change the
\* status or the metadata of another user's payment and never have the
\* provider refund it.
C28_OwnPaymentsOnly == [][OwnPaymentsOnly]_vars

\* The second user asked for a refund of the first user's COMPLETED payment
\* while the first user's confirmation of it was still under way, and was
\* turned down; the payment is COMPLETED and not refunded, while the second
\* user's own payment has been refunded.
C28_ForeignRefundRefused ==
  /\ resp.op = "refundPayment" /\ resp.user = "u2" /\ resp.target = 1
  /\ resp.code # "OK"
  /\ payments[1].userId = "u1" /\ payments[1].status = "COMPLETED"
  /\ \E c \in Calls : inflight[c].op = "confirmPayment" /\ inflight[c].user = "u1"
  /\ intents[1].refunds = 0
  /\ payments[2].userId = "u2" /\ payments[2].status = "REFUNDED"

\* ---------------------------------------------------------------- ownership
\* Request bodies with and without a tenantId of the caller's choosing.
CreateBodies ==
  {[name |-> n] : n \in StationNames}
    \cup {[name |-> n, tenantId |-> t] : n \in StationNames, t \in Tenants}
UpdateBodies ==
  {[id |-> i, name |-> n] : i \in StationIds, n \in StationNames}
    \cup {[id |-> i, tenantId |-> t] : i \in StationIds, t \in Tenants}
    \cup {[id |-> i, name |-> n, tenantId |-> t] : i \in StationIds, n \in StationNames,
                                                   t \in Tenants}

\* Stations created, updated and given ports by the administrators of both
\* tenants, with bodies that name a tenant and requests that overlap.
NextOwnership ==
  \/ \E tok \in AdminTokens, body \in CreateBodies : create(tok, body)
  \/ \E tok \in AdminTokens, body \in UpdateBodies : update(tok, body)
  \/ \E c \in Calls, tok \in AdminTokens, id \in StationIds : addPort(c, tok, id)
  \/ \E c \in Calls : addPortCreate(c)
  \/ \E c \in Calls, tok \in AdminTokens, p \in PortIds, st \in {"OCCUPIED", "MAINTENANCE"} :
        updatePortStatus(c, tok, p, st)
  \/ \E c \in Calls, io \in BOOLEAN : updatePortStatusEmit(c, io)

SpecOwnership == Init /\ [][NextOwnership]_vars

\* A step gives a new station the tenant of the caller that created it and
\* leaves the tenant of a station that exists as it is.
TenantFixed ==
  \A s \in StationIds :
    /\ (stations[s].row = "absent" /\ stations'[s].row = "live")
         => /\ resp'.op = "create" /\ resp'.target = s
            /\ stations'[s].tenantId = resp'.tenantId
            /\ resp'.tenantId \in Tenants
    /\ (stations[s].row = "live" /\ stations'[s].row = "live")
         => stations'[s].tenantId = stations[s].tenantId

\* C29: a station belongs to the tenant of the authenticated caller that
\* created it, whatever the request body contains, and no later update,
\* addPort or updatePortStatus changes that.
C29_TenantFixed == [][TenantFixed]_vars

\* An update whose body names the other tenant was carried out on a station
\* that has a port, while a status update of that port was under way: the
\* station has the new name and the tenant it had.
C29_UpdateNamedOtherTenant ==
  /\ resp.op = "update" /\ resp.code = "OK"
  /\ "tenantId" \in DOMAIN resp.body /\ "name" \in DOMAIN resp.body
  /\ resp.body["tenantId"] # resp.tenantId
  /\ stations[resp.target].tenantId = resp.tenantId
  /\ stations[resp.target].name = resp.body["name"]
  /\ \E c \in Calls : /\ inflight[c].op = "updatePortStatus"
                       /\ inflight[c].portId \in PortsOf(resp.target)

\* C30: the port-status events of a port are emitted in the order of the writes
\* they report -- once no status update of a port is between its write and its
\* event, the last event emitted for the port carries the port's stored status.
C30_LastEventIsStored ==
  \A p \in PortIds :
    (/\ lastEvent[p] # "none"
     /\ \A c \in Calls : ~(inflight[c].op = "updatePortStatus" /\ inflight[c].portId = p))
      => lastEvent[p] = ports[p].status
====
